---- MODULE Spec2Model ----
(***************************************************************************)
(* PDF -> Word conversion pipeline of src/src/lib/countdown.ts:            *)
(* the memoized pdf.js loader (loadPdfJs), the per-page text               *)
(* reconstruction (extractPageText) and the orchestrator                   *)
(* (convertPdfToWord).                                                     *)
(*                                                                         *)
(* A JavaScript string is modelled as a sequence of tokens; the token " "  *)
(* is a whitespace character, every other token is a non-blank piece of    *)
(* text.  Coordinates are integers.                                        *)
(***************************************************************************)
EXTENDS Integers, Sequences, FiniteSets, TLC

\* ------------------------------------------------------------------------
\* Bounds of the model
\* ------------------------------------------------------------------------

\* longest document, in pages, converted under Spec
MaxPages == 2
\* number of convertPdfToWord invocations; Spec makes the first of them,
\* SpecConc makes them all and interleaves them
NumCalls == 2
\* longest run list and largest Y coordinate clustered under SpecCluster
MaxRuns == 3
MaxY == 4
\* height of the sample pages
PageHeight == 100
\* longest password generated
MaxLength == 2
\* largest min and max, and largest count, of generateMultipleNumbers
MaxNum == 1
MaxCount == 3
\* numbers beyond each end of 1..3999, and longest string, given to the
\* Roman numeral functions
OutOfRange == 2
MaxRomanLen == 3
\* longest text and largest shift, either way, given to the Caesar cipher
MaxCaesarLen == 2
MaxShift == 27
\* time the Metronome is followed for, and most display timers waiting
MaxTime == 4
MaxTimers == 3
\* longest pathname, most languages of a header, most redirects followed
MaxPathLen == 3
MaxLangs == 2
MaxRedirects == 3
\* the q of a language, in tenths: absent (1) and 0.5
FullQuality == 10
HalfQuality == 5

\* ------------------------------------------------------------------------
\* Strings
\* ------------------------------------------------------------------------

SP == " "

EmptyStr == <<>>

RECURSIVE TrimStart(_)
TrimStart(s) ==
  IF s # <<>> /\ Head(s) = SP THEN TrimStart(Tail(s)) ELSE s

RECURSIVE TrimEnd(_)
TrimEnd(s) ==
  IF s # <<>> /\ s[Len(s)] = SP THEN TrimEnd(SubSeq(s, 1, Len(s) - 1)) ELSE s

\* String.prototype.trim
Trim(s) == TrimEnd(TrimStart(s))

\* Array.prototype.join(" ") over a sequence of strings
RECURSIVE JoinSp(_)
JoinSp(ss) ==
  IF ss = <<>> THEN EmptyStr
  ELSE IF Len(ss) = 1 THEN ss[1]
  ELSE ss[1] \o <<SP>> \o JoinSp(Tail(ss))

\* Array.prototype.sort is stable: the r-th element of the result is the one
\* with r - 1 elements before it, equal keys keeping their order.
\* keys[j] is the key of s[j].
SortByKeys(s, keys) ==
  LET n == Len(s)
      Rank(j) == Cardinality({k \in 1..n :
                    \/ keys[k] < keys[j]
                    \/ keys[k] = keys[j] /\ k < j}) + 1
  IN  [r \in 1..n |-> s[CHOOSE j \in 1..n : Rank(j) = r]]

Abs(a) == IF a < 0 THEN -a ELSE a

\* ------------------------------------------------------------------------
\* extractPageText
\* ------------------------------------------------------------------------

LINE_THRESHOLD == 3
PARAGRAPH_GAP == 10

\* a text item of PDFTextContent: str, transform[4], transform[5], hasEOL
Item(str, tx, ty, eol) == [str |-> str, tx |-> tx, ty |-> ty, hasEOL |-> eol]

\* a page handle: its text items (getTextContent) and its height (getViewport)
Page(items, height) == [items |-> items, height |-> height]

\* the filter of line 266
Retained(item) == Len(Trim(item.str)) > 0 \/ item.hasEOL

\* lines 265-272: drop blank items, invert Y
Positioned(page) ==
  LET kept == SelectSeq(page.items, Retained)
  IN  [k \in 1..Len(kept) |->
         [text |-> kept[k].str, x |-> kept[k].tx,
          y |-> page.height - kept[k].ty, hasEOL |-> kept[k].hasEOL]]

\* line 283: the test a run makes against a line
NearLineInclusive(line, item) == Abs(line.y - item.y) <= LINE_THRESHOLD
NearLine(line, item) == Abs(line.y - item.y) < LINE_THRESHOLD

\* lines 282-288: the line the inner loop stops at (0: none found);
\* FoundLineLast is the loop without its break
FoundLineLast(lines, item) ==
  IF \E k \in 1..Len(lines) : NearLine(lines[k], item)
  THEN CHOOSE k \in 1..Len(lines) :
         /\ NearLine(lines[k], item)
         /\ \A j \in (k+1)..Len(lines) : ~NearLine(lines[j], item)
  ELSE 0
FoundLine(lines, item) ==
  IF \E k \in 1..Len(lines) : NearLine(lines[k], item)
  THEN CHOOSE k \in 1..Len(lines) :
         /\ NearLine(lines[k], item)
         /\ \A j \in 1..(k-1) : ~NearLine(lines[j], item)
  ELSE 0

\* line 284: push onto the found line (JoinLineRecentre moves the line to the run)
JoinLineRecentre(line, item) ==
  [y |-> item.y, items |-> Append(line.items, item)]
JoinLine(line, item) ==
  [line EXCEPT !.items = Append(@, item)]

\* lines 280-292: one iteration of the clustering loop
ClusterStep(lines, item) ==
  LET k == FoundLine(lines, item)
  IN  IF k # 0
      THEN [lines EXCEPT ![k] = JoinLine(@, item)]
      ELSE Append(lines, [y |-> item.y,
                          items |-> <<item>>])

RECURSIVE ClusterFrom(_, _)
ClusterFrom(lines, positioned) ==
  IF positioned = <<>> THEN lines
  ELSE ClusterFrom(ClusterStep(lines, Head(positioned)), Tail(positioned))

\* lines 278-292
Cluster(positioned) == ClusterFrom(<<>>, positioned)

\* line 295: lines.sort((a, b) => a.y - b.y)
SortLinesAsArrived(lines) == lines
SortLinesByY(lines) == SortByKeys(lines, [k \in 1..Len(lines) |-> lines[k].y])

\* line 299: line.items.sort((a, b) => a.x - b.x)
SortItemsAsArrived(items) == items
SortItemsByX(items) == SortByKeys(items, [k \in 1..Len(items) |-> items[k].x])

\* lines 295-300: lines top-to-bottom, items left-to-right
SortedLines(lines) ==
  LET byY == SortLinesByY(lines)
  IN  [k \in 1..Len(byY) |-> [byY[k] EXCEPT !.items = SortItemsByX(@)]]

\* line 304: the text of one line
LineText(line) ==
  Trim(JoinSp([k \in 1..Len(line.items) |-> line.items[k].text]))

KeepEmpty(text) == TRUE
NonEmpty(text) == Len(text) > 0

\* lines 303-305: the line texts, empty ones filtered out
LineTexts(lines) ==
  SelectSeq([k \in 1..Len(lines) |-> LineText(lines[k])], NonEmpty)

\* line 320
IsParagraphBreakInclusive(gap) == gap >= PARAGRAPH_GAP
IsParagraphBreak(gap) == gap > PARAGRAPH_GAP

\* lines 314-328: the loop body for the (1-based) index i >= 2; lineTexts[i]
\* is undefined past the end of the filtered list, and the loop continues.
\* st = [paragraphs, currentParagraph]
ParagraphStepNoPush(st, lines, lineTexts, i) ==
  IF i > Len(lineTexts) \/ lineTexts[i] = EmptyStr THEN st
  ELSE IF IsParagraphBreak(lines[i].y - lines[i - 1].y)
       THEN [st EXCEPT !.currentParagraph = lineTexts[i]]
       ELSE [st EXCEPT !.currentParagraph = @ \o <<SP>> \o lineTexts[i]]
ParagraphStep(st, lines, lineTexts, i) ==
  IF i > Len(lineTexts) \/ lineTexts[i] = EmptyStr THEN st
  ELSE IF IsParagraphBreak(lines[i].y - lines[i - 1].y)
       THEN [paragraphs |-> Append(st.paragraphs, st.currentParagraph),
             currentParagraph |-> lineTexts[i]]
       ELSE [st EXCEPT !.currentParagraph = @ \o <<SP>> \o lineTexts[i]]

RECURSIVE ParagraphLoop(_, _, _, _)
ParagraphLoop(st, lines, lineTexts, i) ==
  IF i > Len(lines) THEN st
  ELSE ParagraphLoop(ParagraphStep(st, lines, lineTexts, i), lines, lineTexts, i + 1)

\* lines 308-334
Paragraphs(lines) ==
  LET lineTexts == LineTexts(lines)
  IN  IF lineTexts = <<>> THEN <<>>
      ELSE LET st == ParagraphLoop([paragraphs |-> <<>>,
                                    currentParagraph |-> lineTexts[1]],
                                   lines, lineTexts, 2)
           IN  IF st.currentParagraph # EmptyStr
               THEN Append(st.paragraphs, st.currentParagraph)
               ELSE st.paragraphs

\* lines 257-335, after getTextContent has resolved
ExtractPageText(page) ==
  IF page.items = <<>> THEN <<>>
  ELSE LET positioned == Positioned(page)
       IN  IF positioned = <<>> THEN <<>>
           ELSE Paragraphs(SortedLines(Cluster(positioned)))

\* ------------------------------------------------------------------------
\* Document assembly (convertPdfToWord, lines 369-406)
\* ------------------------------------------------------------------------

\* new Paragraph({children: [new TextRun({text})], spacing})
TextBlock(text) == [kind |-> "paragraph", text |-> text, italics |-> FALSE]

\* lines 376-386: the note of an empty page; pageIdx is 0-based
PlaceholderBlockZeroBased(pageIdx) ==
  [kind |-> "paragraph",
   text |-> <<"[Strona ", ToString(pageIdx), " - brak tekstu]">>,
   italics |-> TRUE]
PlaceholderBlock(pageIdx) ==
  [kind |-> "paragraph",
   text |-> <<"[Strona ", ToString(pageIdx + 1), " - brak tekstu]">>,
   italics |-> TRUE]

\* new Paragraph({children: [new PageBreak()]})
PageBreakBlock == [kind |-> "pagebreak", text |-> EmptyStr, italics |-> FALSE]

\* lines 374-396: the blocks of one page
PageBlocksNoPlaceholder(pageParagraphs, pageIdx) ==
  IF pageParagraphs = <<>> THEN <<>>
  ELSE [k \in 1..Len(pageParagraphs) |-> TextBlock(pageParagraphs[k])]
PageBlocks(pageParagraphs, pageIdx) ==
  IF pageParagraphs = <<>> THEN <<PlaceholderBlock(pageIdx)>>
  ELSE [k \in 1..Len(pageParagraphs) |-> TextBlock(pageParagraphs[k])]

\* line 399
BreakAfterEvery(pageIdx, nPages) == pageIdx < nPages
BreakAfter(pageIdx, nPages) == pageIdx < nPages - 1

\* lines 371-406: the loop from the 0-based pageIdx on
RECURSIVE AssembleFrom(_, _, _)
AssembleFrom(children, allTexts, pageIdx) ==
  IF pageIdx >= Len(allTexts) THEN children
  ELSE AssembleFrom(
         children \o PageBlocks(allTexts[pageIdx + 1], pageIdx)
                  \o (IF BreakAfter(pageIdx, Len(allTexts))
                      THEN <<PageBreakBlock>> ELSE <<>>),
         allTexts, pageIdx + 1)

Assemble(allTexts) == AssembleFrom(<<>>, allTexts, 0)

\* ------------------------------------------------------------------------
\* Inputs
\* ------------------------------------------------------------------------

\* a page with no text items at all (a scanned page)
EmptyPage == Page(<<>>, PageHeight)
\* a page whose only items are blank and carry no end-of-line hint
BlankPage == Page(<<Item(<<SP>>, 0, 90, FALSE), Item(EmptyStr, 5, 80, FALSE)>>,
                  PageHeight)
\* a page whose only item is an empty end-of-line marker
EolPage == Page(<<Item(EmptyStr, 0, 90, TRUE)>>, PageHeight)
\* one line, its runs arriving right to left
HelloPage == Page(<<Item(<<"world">>, 40, 90, FALSE),
                    Item(<<"Hello">>, 10, 91, FALSE)>>, PageHeight)
\* three lines, two paragraphs, arriving bottom-up
TwoParaPage == Page(<<Item(<<"c">>, 0, 60, FALSE), Item(<<"b">>, 0, 85, TRUE),
                      Item(<<"a">>, 0, 90, FALSE)>>, PageHeight)

PageSamples == {EmptyPage, BlankPage, EolPage, HelloPage, TwoParaPage}

RECURSIVE SeqsUpTo(_, _)
SeqsUpTo(S, n) ==
  IF n = 0 THEN {<<>>}
  ELSE LET shorter == SeqsUpTo(S, n - 1)
       IN  shorter \cup {Append(s, e) : s \in shorter, e \in S}

\* the documents converted: 1..MaxPages pages
Files == SeqsUpTo(PageSamples, MaxPages) \ {<<>>}

\* the documents of the interleaved invocations: different files for
\* neighbouring invocations
ConcFile(p) == IF p % 2 = 1 THEN <<HelloPage, EmptyPage>> ELSE <<TwoParaPage>>

Calls == 1..NumCalls

\* ------------------------------------------------------------------------
\* validatePdfFile (src/lib/pdf-converter.ts, lines 210-222)
\* ------------------------------------------------------------------------

\* file names and MIME types are sequences of characters
UpperCase == <<"A", "B", "C", "D", "E", "F", "G", "H", "I", "J", "K", "L", "M",
               "N", "O", "P", "Q", "R", "S", "T", "U", "V", "W", "X", "Y", "Z">>
LowerCase == <<"a", "b", "c", "d", "e", "f", "g", "h", "i", "j", "k", "l", "m",
               "n", "o", "p", "q", "r", "s", "t", "u", "v", "w", "x", "y", "z">>
LowerChar(c) ==
  IF \E k \in 1..Len(UpperCase) : UpperCase[k] = c
  THEN LowerCase[CHOOSE k \in 1..Len(UpperCase) : UpperCase[k] = c]
  ELSE c
\* String.prototype.toLowerCase
ToLowerCase(s) == [k \in 1..Len(s) |-> LowerChar(s[k])]
\* String.prototype.includes
Includes(s, sub) ==
  \E o \in 0..(Len(s) - Len(sub)) : SubSeq(s, o + 1, o + Len(sub)) = sub
\* String.prototype.endsWith
EndsWith(s, suffix) ==
  /\ Len(s) >= Len(suffix)
  /\ SubSeq(s, Len(s) - Len(suffix) + 1, Len(s)) = suffix

\* line 211: 50 MB
maxSize == 50 * 1024 * 1024

\* the messages, without their diacritics
NotPdfError == "Plik musi byc w formacie PDF"
TooBigError == "Plik jest za duzy (max 50 MB)"

\* a File: its MIME type, its name, its size in bytes, and the document in it
File(type, name, size, doc) == [type |-> type, name |-> name, size |-> size, doc |-> doc]

ValidatePdfFileExclusive(f) ==
  IF ~Includes(f.type, <<"p", "d", "f">>)
     /\ ~EndsWith(ToLowerCase(f.name), <<".", "p", "d", "f">>)
  THEN [valid |-> FALSE, error |-> NotPdfError]
  ELSE IF f.size >= maxSize
       THEN [valid |-> FALSE, error |-> TooBigError]
       ELSE [valid |-> TRUE, error |-> "undefined"]
ValidatePdfFile(f) ==
  IF ~Includes(f.type, <<"p", "d", "f">>)
     /\ ~EndsWith(ToLowerCase(f.name), <<".", "p", "d", "f">>)
  THEN [valid |-> FALSE, error |-> NotPdfError]
  ELSE IF f.size > maxSize
       THEN [valid |-> FALSE, error |-> TooBigError]
       ELSE [valid |-> TRUE, error |-> "undefined"]

\* ------------------------------------------------------------------------
\* PdfToWordConverter (src/components/pdf-converter/pdf-to-word-converter.tsx)
\* ------------------------------------------------------------------------

\* null, for the states that hold an object or null
Null == [null |-> TRUE]
\* null, for the error string
NoError == "null"
\* line 82
ConversionError == "Wystapil blad podczas konwersji. Sprobuj ponownie."

\* the files the user picks or drops
PdfType == <<"a", "p", "p", "l", "i", "c", "a", "t", "i", "o", "n", "/", "p", "d", "f">>
TextType == <<"t", "e", "x", "t", "/", "p", "l", "a", "i", "n">>
\* a PDF by its type only
TypeOnlyPdf == File(PdfType, <<"a", ".", "t", "x", "t">>, 1024, <<HelloPage, EmptyPage>>)
\* a PDF by its upper-case extension only, of exactly 50 MB
UpperExtPdf == File(<<>>, <<"A", ".", "P", "D", "F">>, 50 * 1024 * 1024, <<TwoParaPage>>)
\* neither type nor name
TextFile == File(TextType, <<"a", ".", "t", "x", "t">>, 1024, <<HelloPage>>)
\* "pdf" without the dot
NoDotFile == File(<<>>, <<"p", "d", "f">>, 1024, <<HelloPage>>)
\* one byte above 50 MB
TooBigPdf == File(PdfType, <<"a", ".", "p", "d", "f">>, 50 * 1024 * 1024 + 1, <<HelloPage>>)
Candidates == {TypeOnlyPdf, UpperExtPdf, TextFile, NoDotFile, TooBigPdf}

\* ------------------------------------------------------------------------
\* generatePassword (src/lib/password.ts, lines 10-55)
\* ------------------------------------------------------------------------

UPPERCASE == UpperCase
LOWERCASE == LowerCase
NUMBERS == <<"0", "1", "2", "3", "4", "5", "6", "7", "8", "9">>
SYMBOLS == <<"!", "@", "#", "$", "%", "^", "&", "*", "(", ")", "_", "+", "-",
             "=", "[", "]", "{", "}", "|", ";", ":", ",", ".", "<", ">", "?">>
SIMILAR_CHARS == <<"0", "O", "1", "l", "I">>

\* line 37: the filter callback
NotSimilar(char) == ~Includes(SIMILAR_CHARS, <<char>>)

\* lines 18-44: the characters drawn from
PasswordChars(options) ==
  LET selected == (IF options.uppercase THEN UPPERCASE ELSE <<>>)
                    \o (IF options.lowercase THEN LOWERCASE ELSE <<>>)
                    \o (IF options.numbers THEN NUMBERS ELSE <<>>)
                    \o (IF options.symbols THEN SYMBOLS ELSE <<>>)
      filtered == IF options.excludeSimilar THEN SelectSeq(selected, NotSimilar)
                  ELSE selected
  IN  IF Len(filtered) = 0 THEN LOWERCASE ELSE filtered

\* the option records: every combination of the flags, lengths 0..MaxLength
PasswordOptions ==
  [length : 0..MaxLength, uppercase : BOOLEAN, lowercase : BOOLEAN,
   numbers : BOOLEAN, symbols : BOOLEAN, excludeSimilar : BOOLEAN]
\* values crypto.getRandomValues puts into the Uint32Array: the least, a
\* large one, and two that hit similar characters of the alphabets
Uint32Samples == {0, 11, 34, 2147483647}

\* ------------------------------------------------------------------------
\* State
\* ------------------------------------------------------------------------

VARIABLES
  \* module state of the loader (lines 207-208) and its environment
  pdfjsLib,        \* the cached library handle, NoLib for null
  loadingPromise,  \* index into promises of the memoized promise, 0 for null
  promises,        \* every promise loadPdfJs created, with its script element
  windowLib,       \* window.pdfjsLib
  \* one convertPdfToWord invocation per element of Calls
  file,            \* the document handed to the invocation
  pc,              \* where the invocation is suspended
  via,             \* the branch loadPdfJs took for the invocation
  waitOn,          \* the promise the invocation awaits in line 346
  lib,             \* pdfjs (line 346)
  totalPages,      \* line 351
  i,               \* loop variable of line 356
  allPageTexts,    \* line 354
  paragraphs,      \* line 360, while the outer await is pending
  children,        \* line 369
  result,          \* the blob the invocation resolved with
  failure,         \* what made the invocation reject
  received,        \* the events the invocation's onProgress has been passed
  log,             \* the invocation's calls and callbacks, in order
  \* the clustering loop of extractPageText, one iteration at a time
  cPage,           \* the page being reconstructed
  cPos,            \* positioned (line 265)
  cIdx,            \* number of runs the loop of line 280 has processed
  cLines,          \* lines (line 278)
  \* the rest of extractPageText, stepped after the clustering loop
  xPhase,          \* "cluster", "paragraphs" (the loop of line 314) or "returned"
  xLines,          \* lines after the sorts of lines 295-300
  xTexts,          \* lineTexts (line 303)
  xI,              \* 1-based index of the line the loop of line 314 is at
  xParas,          \* paragraphs (line 311)
  xCur,            \* currentParagraph (line 312)
  xResult,         \* the value extractPageText returned
  \* the state of the PdfToWordConverter widget
  wFile,           \* file (line 48)
  isConverting,    \* line 49
  progress,        \* line 50
  resultBlob,      \* line 51
  error,           \* line 52
  wRun,            \* number of conversions the widget has started
  wGiven,          \* the File each of them was started with
  wSeen,           \* number of progress events of the current one already rendered
  wOp,             \* the handler that ran last
  wPick,           \* the File it was about
  wPrev,           \* file, resultBlob and error before it ran
  \* generatePassword
  pwPc,            \* "idle", "called", "loop" or "returned"
  pwOptions,       \* options
  pwChars,         \* chars (line 18)
  pwArray,         \* array (line 47)
  password,        \* password (line 46)
  pwI,             \* i (line 50)
  \* generateMultipleNumbers
  numPc,           \* "idle", "called", "loop" or "returned"
  numMin,          \* min
  numMax,          \* max
  numCount,        \* count
  numUnique,       \* unique
  numSorted,       \* sorted
  actualCount,     \* line 71
  numbers,         \* line 73
  usedNumbers,     \* line 74
  num,             \* line 77, the number drawn last (0 before the first)
  \* toRoman and fromRoman
  rmPc,            \* "idle", "number", "converted", "back", "text" or "parsed"
  rmNum,           \* num of toRoman
  rmRoman,         \* what toRoman returned
  rmText,          \* roman of fromRoman
  rmValue,         \* what fromRoman returned
  \* caesarEncrypt and caesarDecrypt
  csPc,            \* "idle", "input", "encrypted" or "decrypted"
  csText,          \* text, as its UTF-16 code units
  csShift,         \* shift
  csEncrypted,     \* caesarEncrypt(text, shift)
  csDecrypted,     \* caesarDecrypt of it with the same shift
  \* Metronome
  isPlaying,        \* line 56
  currentBeat,      \* line 58
  audioContextRef,  \* line 61: is the AudioContext created
  timerIdRef,       \* line 62: is the interval of the scheduler installed
  nextNoteTimeRef,  \* line 63
  currentBeatRef,   \* line 64
  isPlayingRef,     \* line 65
  ctxTime,          \* ctx.currentTime, in units of SCHEDULE_AHEAD
  timeouts,         \* the display timers of line 100 not yet run, as created
  \* the locale middleware and the client that follows its redirects
  mwPathname,       \* request.nextUrl.pathname of the request under way
  mwCookie,         \* the NEXT_LOCALE cookie, empty when absent
  mwAccept,         \* the Accept-Language header, empty when absent
  mwOutcome,        \* "idle", "request" or "next"
  mwFirst,          \* the pathname first requested
  mwLocale,         \* the locale of the last redirect
  mwRedirects       \* number of redirects so far

loaderVars == <<pdfjsLib, loadingPromise, promises, windowLib>>
callVars == <<file, pc, via, waitOn, lib, totalPages, i, allPageTexts, paragraphs,
              children, result, failure, received, log>>
clusterVars == <<cPage, cPos, cIdx, cLines>>
extractVars == <<xPhase, xLines, xTexts, xI, xParas, xCur, xResult>>
widgetVars == <<wFile, isConverting, progress, resultBlob, error, wRun, wGiven,
                wSeen, wOp, wPick, wPrev>>
pdfVars == <<loaderVars, callVars, clusterVars, extractVars, widgetVars>>
pwVars == <<pwPc, pwOptions, pwChars, pwArray, password, pwI>>
numVars == <<numPc, numMin, numMax, numCount, numUnique, numSorted, actualCount,
             numbers, usedNumbers, num>>
rmVars == <<rmPc, rmNum, rmRoman, rmText, rmValue>>
csVars == <<csPc, csText, csShift, csEncrypted, csDecrypted>>
mtVars == <<isPlaying, currentBeat, audioContextRef, timerIdRef, nextNoteTimeRef,
            currentBeatRef, isPlayingRef, ctxTime, timeouts>>
mwVars == <<mwPathname, mwCookie, mwAccept, mwOutcome, mwFirst, mwLocale, mwRedirects>>
toolVars == <<pwVars, numVars, rmVars, csVars, mtVars, mwVars>>
vars == <<pdfVars, toolVars>>

\* what the steps of one tool leave alone
pwFrame == <<pdfVars, numVars, rmVars, csVars, mtVars, mwVars>>
numFrame == <<pdfVars, pwVars, rmVars, csVars, mtVars, mwVars>>
rmFrame == <<pdfVars, pwVars, numVars, csVars, mtVars, mwVars>>
csFrame == <<pdfVars, pwVars, numVars, rmVars, mtVars, mwVars>>
mtFrame == <<pdfVars, pwVars, numVars, rmVars, csVars, mwVars>>
mwFrame == <<pdfVars, pwVars, numVars, rmVars, csVars, mtVars>>

NoLib == [kind |-> "null", id |-> 0]
\* a library another tool of the site has already put on window
PreLib == [kind |-> "preloaded", id |-> 0]
\* the library the k-th injected script defines
ScriptLib(k) == [kind |-> "script", id |-> k]

NoBlob == [kind |-> "none", blocks |-> <<>>]
Blob(blocks) == [kind |-> "blob", blocks |-> blocks]

NoFailure == [why |-> "none", page |-> 0]
Failure(why, page) == [why |-> why, page |-> page]

Ev(ev, page) == [ev |-> ev, page |-> page]
ProgressZeroBased(currentPage, total, stage) ==
  [currentPage |-> currentPage - 1, totalPages |-> total, stage |-> stage]
Progress(currentPage, total, stage) ==
  [currentPage |-> currentPage, totalPages |-> total, stage |-> stage]

InitLoader ==
  /\ pdfjsLib = NoLib
  /\ loadingPromise = 0
  /\ promises = <<>>
  /\ windowLib \in {NoLib, PreLib}

\* files: the possible assignments of a document to every invocation;
\* active: the invocations that are made
InitCalls(files, active) ==
  /\ file \in files
  /\ pc = [p \in Calls |-> IF p \in active THEN "idle" ELSE "off"]
  /\ via = [p \in Calls |-> "none"]
  /\ waitOn = [p \in Calls |-> 0]
  /\ lib = [p \in Calls |-> NoLib]
  /\ totalPages = [p \in Calls |-> 0]
  /\ i = [p \in Calls |-> 0]
  /\ allPageTexts = [p \in Calls |-> <<>>]
  /\ paragraphs = [p \in Calls |-> <<>>]
  /\ children = [p \in Calls |-> <<>>]
  /\ result = [p \in Calls |-> NoBlob]
  /\ failure = [p \in Calls |-> NoFailure]
  /\ received = [p \in Calls |-> <<>>]
  /\ log = [p \in Calls |-> <<>>]

InitWidget ==
  /\ wFile = Null
  /\ isConverting = FALSE
  /\ progress = Null
  /\ resultBlob = NoBlob
  /\ error = NoError
  /\ wRun = 0
  /\ wGiven = [p \in Calls |-> Null]
  /\ wSeen = 0
  /\ wOp = "none"
  /\ wPick = Null
  /\ wPrev = [file |-> Null, resultBlob |-> NoBlob, error |-> NoError]

InitPassword(options, at) ==
  /\ pwPc = at
  /\ pwOptions \in options
  /\ pwChars = <<>>
  /\ pwArray = <<>>
  /\ password = <<>>
  /\ pwI = 0

InitNumbers(mins, maxs, counts, flags, at) ==
  /\ numPc = at
  /\ numMin \in mins
  /\ numMax \in maxs
  /\ numCount \in counts
  /\ numUnique \in flags
  /\ numSorted \in flags
  /\ actualCount = 0
  /\ numbers = <<>>
  /\ usedNumbers = {}
  /\ num = 0

NumbersIdle == InitNumbers({0}, {0}, {0}, {FALSE}, "idle")

InitRoman(nums, texts, at) ==
  /\ rmPc = at
  /\ rmNum \in nums
  /\ rmText \in texts
  /\ rmRoman = <<>>
  /\ rmValue = 0

RomanIdle == InitRoman({0}, {<<>>}, "idle")

InitCaesar(texts, shifts, at) ==
  /\ csPc = at
  /\ csText \in texts
  /\ csShift \in shifts
  /\ csEncrypted = <<>>
  /\ csDecrypted = <<>>

CaesarIdle == InitCaesar({<<>>}, {0}, "idle")

InitMiddleware(pathnames, cookies, accepts, at) ==
  /\ mwPathname \in pathnames
  /\ mwCookie \in cookies
  /\ mwAccept \in accepts
  /\ mwOutcome = at
  /\ mwFirst = mwPathname
  /\ mwLocale = <<>>
  /\ mwRedirects = 0

MiddlewareIdle == InitMiddleware({<<"/">>}, {<<>>}, {<<>>}, "idle")

\* the Metronome as mounted (lines 55-65)
InitMetronome ==
  /\ isPlaying = FALSE
  /\ currentBeat = 0 - 1
  /\ audioContextRef = FALSE
  /\ timerIdRef = FALSE
  /\ nextNoteTimeRef = 0
  /\ currentBeatRef = 0
  /\ isPlayingRef = FALSE
  /\ ctxTime = 0
  /\ timeouts = <<>>

PasswordIdle ==
  InitPassword({[length |-> 0, uppercase |-> FALSE, lowercase |-> FALSE,
                 numbers |-> FALSE, symbols |-> FALSE, excludeSimilar |-> FALSE]},
               "idle")

\* none of the other tools is running
InitTools ==
  /\ PasswordIdle
  /\ NumbersIdle
  /\ RomanIdle
  /\ CaesarIdle
  /\ InitMetronome
  /\ MiddlewareIdle

InitCluster(pages) ==
  /\ cPage \in pages
  /\ cPos = Positioned(cPage)
  /\ cIdx = 0
  /\ cLines = <<>>
  /\ xPhase = "cluster"
  /\ xLines = <<>>
  /\ xTexts = <<>>
  /\ xI = 0
  /\ xParas = <<>>
  /\ xCur = EmptyStr
  /\ xResult = <<>>

\* ------------------------------------------------------------------------
\* loadPdfJs (lines 210-246)
\* ------------------------------------------------------------------------

\* lines 211-212: which way a call of loadPdfJs goes
LoadBranchNoShare(cached, promise) ==
  IF cached # NoLib THEN "cached" ELSE "new"
LoadBranch(cached, promise) ==
  IF cached # NoLib THEN "cached"
  ELSE IF promise # 0 THEN "inflight"
  ELSE "new"

\* lines 214-243: the executor of the new promise
NewPromise(existingPdfjs) ==
  IF existingPdfjs # NoLib
  THEN [state |-> "resolved", value |-> existingPdfjs, script |-> "none"]
  ELSE [state |-> "pending", value |-> NoLib, script |-> "loading"]

\* line 346 runs loadPdfJs up to its return, and the invocation suspends
Invoke(p) ==
  /\ LET branch == LoadBranch(pdfjsLib, loadingPromise)
     IN  /\ via' = [via EXCEPT ![p] = branch]
         /\ pc' = [pc EXCEPT ![p] = "awaitLib"]
         /\ log' = [log EXCEPT ![p] = Append(@, Ev("loadPdfJs", 0))]
         /\ CASE branch = "cached" ->
                   /\ lib' = [lib EXCEPT ![p] = pdfjsLib]
                   /\ waitOn' = [waitOn EXCEPT ![p] = 0]
                   /\ UNCHANGED <<pdfjsLib, loadingPromise, promises>>
              [] branch = "inflight" ->
                   /\ waitOn' = [waitOn EXCEPT ![p] = loadingPromise]
                   /\ UNCHANGED <<lib, pdfjsLib, loadingPromise, promises>>
              [] branch = "new" ->
                   /\ promises' = Append(promises, NewPromise(windowLib))
                   /\ loadingPromise' = Len(promises) + 1
                   /\ pdfjsLib' = IF windowLib # NoLib THEN windowLib ELSE pdfjsLib
                   /\ waitOn' = [waitOn EXCEPT ![p] = Len(promises) + 1]
                   /\ UNCHANGED lib
  /\ UNCHANGED <<windowLib, totalPages, i, allPageTexts, paragraphs,
                 children, result, failure, received>>
  /\ UNCHANGED <<clusterVars, extractVars>>

\* convertPdfToWord is called on the document of the invocation
Call(p) ==
  /\ pc[p] = "idle"
  /\ Invoke(p)
  /\ UNCHANGED <<file, widgetVars, toolVars>>

\* script.onload (lines 226-236); the script may or may not define the library
ScriptOnload(k) ==
  /\ k \in 1..Len(promises)
  /\ promises[k].script = "loading"
  /\ \E exposes \in BOOLEAN :
       LET pdfjs == IF exposes THEN ScriptLib(k) ELSE windowLib
       IN  /\ windowLib' = pdfjs
           /\ IF pdfjs # NoLib
              THEN /\ pdfjsLib' = pdfjs
                   /\ promises' = [promises EXCEPT ![k] =
                        [state |-> "resolved", value |-> pdfjs, script |-> "loaded"]]
              ELSE /\ pdfjsLib' = pdfjsLib
                   /\ promises' = [promises EXCEPT ![k] =
                        [state |-> "rejected", value |-> NoLib, script |-> "loaded"]]
  /\ UNCHANGED <<loadingPromise, callVars, clusterVars, extractVars, widgetVars, toolVars>>

\* script.onerror (lines 238-240)
ScriptOnerror(k) ==
  /\ k \in 1..Len(promises)
  /\ promises[k].script = "loading"
  /\ promises' = [promises EXCEPT ![k] =
        [state |-> "rejected", value |-> NoLib, script |-> "error"]]
  /\ UNCHANGED <<pdfjsLib, loadingPromise, windowLib, callVars, clusterVars, extractVars, widgetVars, toolVars>>

\* ------------------------------------------------------------------------
\* convertPdfToWord (lines 341-417)
\* ------------------------------------------------------------------------

\* the invocation throws: its promise rejects
RejectSwallowed(p, why, page) ==
  /\ pc' = pc
  /\ failure' = [failure EXCEPT ![p] = Failure(why, page)]
Reject(p, why, page) ==
  /\ pc' = [pc EXCEPT ![p] = "rejected"]
  /\ failure' = [failure EXCEPT ![p] = Failure(why, page)]

\* lines 356-367, entered with loop variable n: the progress callback, then
\* the call the invocation suspends on
\* LoopHeadSwallow catches what the callback throws and goes on;
\* LoopHeadFetchFirst asks for the page before it reports it
LoopHeadSwallow(p, n, total, throws, done) ==
  LET thrown == IF throws THEN <<Ev("threw", IF n <= total THEN n ELSE 0)>> ELSE <<>>
  IN
  IF n <= total
  THEN /\ received' = [received EXCEPT ![p] = Append(@, Progress(n, total, "extracting"))]
       /\ log' = [log EXCEPT ![p] =
                    @ \o done \o <<Ev("progress", n)>> \o thrown \o <<Ev("getPage", n)>>]
       /\ pc' = [pc EXCEPT ![p] = "awaitPage"]
       /\ UNCHANGED failure
  ELSE /\ received' = [received EXCEPT ![p] = Append(@, Progress(total, total, "generating"))]
       /\ log' = [log EXCEPT ![p] =
                    @ \o done \o <<Ev("generating", total)>> \o thrown \o <<Ev("import", 0)>>]
       /\ pc' = [pc EXCEPT ![p] = "awaitDocx"]
       /\ UNCHANGED failure
LoopHeadFetchFirst(p, n, total, throws, done) ==
  IF n <= total
  THEN /\ received' = [received EXCEPT ![p] = Append(@, Progress(n, total, "extracting"))]
       /\ IF throws
          THEN /\ log' = [log EXCEPT ![p] =
                            @ \o <<Ev("getPage", n)>> \o done \o <<Ev("progress", n), Ev("threw", n)>>]
               /\ pc' = [pc EXCEPT ![p] = "rejected"]
               /\ failure' = [failure EXCEPT ![p] = Failure("callback", n)]
          ELSE /\ log' = [log EXCEPT ![p] =
                            @ \o <<Ev("getPage", n)>> \o done \o <<Ev("progress", n)>>]
               /\ pc' = [pc EXCEPT ![p] = "awaitPage"]
               /\ UNCHANGED failure
  ELSE /\ received' = [received EXCEPT ![p] = Append(@, Progress(total, total, "generating"))]
       /\ IF throws
          THEN /\ log' = [log EXCEPT ![p] = @ \o done \o <<Ev("generating", total), Ev("threw", 0)>>]
               /\ pc' = [pc EXCEPT ![p] = "rejected"]
               /\ failure' = [failure EXCEPT ![p] = Failure("callback", 0)]
          ELSE /\ log' = [log EXCEPT ![p] = @ \o done \o <<Ev("generating", total), Ev("import", 0)>>]
               /\ pc' = [pc EXCEPT ![p] = "awaitDocx"]
               /\ UNCHANGED failure
LoopHead(p, n, total, throws, done) ==
  IF n <= total
  THEN /\ received' = [received EXCEPT ![p] = Append(@, Progress(n, total, "extracting"))]
       /\ IF throws
          THEN /\ log' = [log EXCEPT ![p] = @ \o done \o <<Ev("progress", n), Ev("threw", n)>>]
               /\ Reject(p, "callback", n)
          ELSE /\ log' = [log EXCEPT ![p] = @ \o done \o <<Ev("progress", n), Ev("getPage", n)>>]
               /\ pc' = [pc EXCEPT ![p] = "awaitPage"]
               /\ UNCHANGED failure
  ELSE /\ received' = [received EXCEPT ![p] = Append(@, Progress(total, total, "generating"))]
       /\ IF throws
          THEN /\ log' = [log EXCEPT ![p] = @ \o done \o <<Ev("generating", total), Ev("threw", 0)>>]
               /\ Reject(p, "callback", 0)
          ELSE /\ log' = [log EXCEPT ![p] = @ \o done \o <<Ev("generating", total), Ev("import", 0)>>]
               /\ pc' = [pc EXCEPT ![p] = "awaitDocx"]
               /\ UNCHANGED failure

\* line 346 resumes: the awaited load has settled
ResumeLib(p) ==
  /\ pc[p] = "awaitLib"
  /\ \/ /\ waitOn[p] = 0
        /\ pc' = [pc EXCEPT ![p] = "awaitBuffer"]
        /\ log' = [log EXCEPT ![p] = Append(@, Ev("arrayBuffer", 0))]
        /\ UNCHANGED <<lib, failure>>
     \/ /\ waitOn[p] # 0
        /\ promises[waitOn[p]].state = "resolved"
        /\ lib' = [lib EXCEPT ![p] = promises[waitOn[p]].value]
        /\ pc' = [pc EXCEPT ![p] = "awaitBuffer"]
        /\ log' = [log EXCEPT ![p] = Append(@, Ev("arrayBuffer", 0))]
        /\ UNCHANGED failure
     \/ /\ waitOn[p] # 0
        /\ promises[waitOn[p]].state = "rejected"
        /\ Reject(p, "load", 0)
        /\ UNCHANGED <<lib, log>>
  /\ UNCHANGED <<loaderVars, file, via, waitOn, totalPages, i, allPageTexts,
                 paragraphs, children, result, received, clusterVars, extractVars, widgetVars, toolVars>>

\* line 349 resumes; line 350 calls getDocument
ResumeBuffer(p) ==
  /\ pc[p] = "awaitBuffer"
  /\ \/ /\ pc' = [pc EXCEPT ![p] = "awaitDocument"]
        /\ log' = [log EXCEPT ![p] = Append(@, Ev("getDocument", 0))]
        /\ UNCHANGED failure
     \/ /\ Reject(p, "arrayBuffer", 0)
        /\ UNCHANGED log
  /\ UNCHANGED <<loaderVars, file, via, waitOn, lib, totalPages, i, allPageTexts,
                 paragraphs, children, result, received, clusterVars, extractVars, widgetVars, toolVars>>

\* line 350 resumes; lines 351-359 run up to getPage(1), or lines 365-367
\* for a document without pages
ResumeDocument(p) ==
  /\ pc[p] = "awaitDocument"
  /\ \/ /\ totalPages' = [totalPages EXCEPT ![p] = Len(file[p])]
        /\ i' = [i EXCEPT ![p] = 1]
        /\ \E throws \in BOOLEAN : LoopHead(p, 1, Len(file[p]), throws, <<>>)
     \/ /\ Reject(p, "getDocument", 0)
        /\ UNCHANGED <<totalPages, i, received, log>>
  /\ UNCHANGED <<loaderVars, file, via, waitOn, lib, allPageTexts,
                 paragraphs, children, result, clusterVars, extractVars, widgetVars, toolVars>>

\* line 359 resumes; line 360 calls extractPageText, which calls getTextContent
ResumePage(p) ==
  /\ pc[p] = "awaitPage"
  /\ \/ /\ pc' = [pc EXCEPT ![p] = "awaitText"]
        /\ log' = [log EXCEPT ![p] = Append(@, Ev("getTextContent", i[p]))]
        /\ UNCHANGED failure
     \/ /\ Reject(p, "getPage", i[p])
        /\ UNCHANGED log
  /\ UNCHANGED <<loaderVars, file, via, waitOn, lib, totalPages, i, allPageTexts,
                 paragraphs, children, result, received, clusterVars, extractVars, widgetVars, toolVars>>

\* line 258 resumes; extractPageText runs to its return
ResumeText(p) ==
  /\ pc[p] = "awaitText"
  /\ \/ /\ paragraphs' = [paragraphs EXCEPT ![p] = ExtractPageText(file[p][i[p]])]
        /\ pc' = [pc EXCEPT ![p] = "awaitExtract"]
        /\ log' = [log EXCEPT ![p] = Append(@, Ev("extracted", i[p]))]
        /\ UNCHANGED failure
     \/ /\ Reject(p, "getTextContent", i[p])
        /\ UNCHANGED <<paragraphs, log>>
  /\ UNCHANGED <<loaderVars, file, via, waitOn, lib, totalPages, i, allPageTexts,
                 children, result, received, clusterVars, extractVars, widgetVars, toolVars>>

\* line 361: the accumulator an invocation appends to is its own
PushPageSkipEmpty(acc, p, paras) ==
  IF paras = <<>> THEN acc ELSE [acc EXCEPT ![p] = Append(@, paras)]
PushPageShared(acc, p, paras) == [q \in DOMAIN acc |-> Append(acc[q], paras)]
PushPageFront(acc, p, paras) == [acc EXCEPT ![p] = <<paras>> \o @]
PushPage(acc, p, paras) == [acc EXCEPT ![p] = Append(@, paras)]

\* line 360 resumes; line 361 pushes, and the loop goes on to the next
\* suspension (lines 356-359, or 365-367 after the last page)
ResumeExtract(p) ==
  /\ pc[p] = "awaitExtract"
  /\ allPageTexts' = PushPage(allPageTexts, p, paragraphs[p])
  /\ i' = [i EXCEPT ![p] = @ + 1]
  /\ \E throws \in BOOLEAN :
       LoopHead(p, i[p] + 1, totalPages[p], throws, <<Ev("push", i[p])>>)
  /\ UNCHANGED <<loaderVars, file, via, waitOn, lib, totalPages,
                 paragraphs, children, result, clusterVars, extractVars, widgetVars, toolVars>>

\* line 367 resumes; lines 369-416 assemble the blocks and call Packer.toBlob
ResumeDocx(p) ==
  /\ pc[p] = "awaitDocx"
  /\ \/ /\ children' = [children EXCEPT ![p] = Assemble(allPageTexts[p])]
        /\ pc' = [pc EXCEPT ![p] = "awaitBlob"]
        /\ log' = [log EXCEPT ![p] = Append(@, Ev("toBlob", 0))]
        /\ UNCHANGED failure
     \/ /\ Reject(p, "import", 0)
        /\ UNCHANGED <<children, log>>
  /\ UNCHANGED <<loaderVars, file, via, waitOn, lib, totalPages, i, allPageTexts,
                 paragraphs, result, received, clusterVars, extractVars, widgetVars, toolVars>>

\* line 416 resumes: the invocation resolves with the blob, or rejects
ResumeBlob(p) ==
  /\ pc[p] = "awaitBlob"
  /\ \/ /\ result' = [result EXCEPT ![p] = Blob(children[p])]
        /\ pc' = [pc EXCEPT ![p] = "resolved"]
        /\ UNCHANGED failure
     \/ /\ Reject(p, "toBlob", 0)
        /\ UNCHANGED result
  /\ UNCHANGED <<loaderVars, file, via, waitOn, lib, totalPages, i, allPageTexts,
                 paragraphs, children, received, log, clusterVars, extractVars, widgetVars, toolVars>>

\* ------------------------------------------------------------------------
\* The clustering loop of extractPageText, stepped (lines 280-292)
\* ------------------------------------------------------------------------

ClusterNext ==
  /\ cIdx < Len(cPos)
  /\ cLines' = ClusterStep(cLines, cPos[cIdx + 1])
  /\ cIdx' = cIdx + 1
  /\ UNCHANGED <<cPage, cPos, loaderVars, callVars, extractVars, widgetVars, toolVars>>

\* ------------------------------------------------------------------------
\* The rest of extractPageText, stepped (lines 262-334)
\* ------------------------------------------------------------------------

\* lines 262 and 274: nothing to cluster, return []
ExtractEmpty ==
  /\ xPhase = "cluster"
  /\ Len(cPos) = 0
  /\ xPhase' = "returned"
  /\ xResult' = <<>>
  /\ UNCHANGED <<xLines, xTexts, xI, xParas, xCur, loaderVars, callVars, clusterVars, widgetVars, toolVars>>

\* lines 295-312: after the clustering loop sort the lines and their items,
\* build the line texts, return [] when none is left, else enter the loop
\* of line 314 with currentParagraph = lineTexts[0]
SortAndText ==
  /\ xPhase = "cluster"
  /\ Len(cPos) > 0
  /\ cIdx = Len(cPos)
  /\ xLines' = SortedLines(cLines)
  /\ xTexts' = LineTexts(SortedLines(cLines))
  /\ IF LineTexts(SortedLines(cLines)) = <<>>
     THEN /\ xPhase' = "returned"
          /\ xResult' = <<>>
          /\ UNCHANGED <<xI, xParas, xCur>>
     ELSE /\ xPhase' = "paragraphs"
          /\ xParas' = <<>>
          /\ xCur' = LineTexts(SortedLines(cLines))[1]
          /\ xI' = 2
          /\ UNCHANGED xResult
  /\ UNCHANGED <<loaderVars, callVars, clusterVars, widgetVars, toolVars>>

\* lines 314-328: one iteration of the paragraph loop
ParagraphNext ==
  /\ xPhase = "paragraphs"
  /\ xI <= Len(xLines)
  /\ LET st == ParagraphStep([paragraphs |-> xParas, currentParagraph |-> xCur],
                             xLines, xTexts, xI)
     IN  /\ xParas' = st.paragraphs
         /\ xCur' = st.currentParagraph
  /\ xI' = xI + 1
  /\ UNCHANGED <<xPhase, xLines, xTexts, xResult, loaderVars, callVars, clusterVars, widgetVars, toolVars>>

\* lines 330-334: the loop is over, flush currentParagraph and return
ParagraphsReturn ==
  /\ xPhase = "paragraphs"
  /\ xI > Len(xLines)
  /\ xResult' = IF xCur # EmptyStr THEN Append(xParas, xCur) ELSE xParas
  /\ xPhase' = "returned"
  /\ UNCHANGED <<xLines, xTexts, xI, xParas, xCur, loaderVars, callVars, clusterVars, widgetVars, toolVars>>

\* ------------------------------------------------------------------------

\* ------------------------------------------------------------------------
\* The handlers of PdfToWordConverter
\* ------------------------------------------------------------------------

\* handleFileSelect (lines 56-66), reached from the file input and the drop
\* zone, which are rendered while no file is selected (line 157)
HandleFileSelect(f) ==
  /\ wFile = Null
  /\ LET validation == ValidatePdfFile(f)
     IN  IF ~validation.valid
         THEN /\ error' = validation.error
              /\ UNCHANGED <<wFile, resultBlob>>
         ELSE /\ wFile' = f
              /\ error' = NoError
              /\ resultBlob' = NoBlob
  /\ wOp' = "select"
  /\ wPick' = f
  /\ wPrev' = [file |-> wFile, resultBlob |-> resultBlob, error |-> error]
  /\ UNCHANGED <<isConverting, progress, wRun, wGiven, wSeen>>
  /\ UNCHANGED <<loaderVars, callVars, clusterVars, extractVars, toolVars>>

\* handleConvert up to its await (lines 68-76): the button is rendered for
\* a selected file that is neither being converted nor converted (line 197);
\* convertPdfToWord runs up to its first suspension
HandleConvert(p) ==
  /\ wFile # Null
  /\ ~isConverting
  /\ resultBlob = NoBlob
  /\ p = wRun + 1
  /\ isConverting' = TRUE
  /\ error' = NoError
  /\ resultBlob' = NoBlob
  /\ wGiven' = [wGiven EXCEPT ![p] = wFile]
  /\ file' = [file EXCEPT ![p] = wFile.doc]
  /\ Invoke(p)
  /\ wRun' = p
  /\ wSeen' = 0
  /\ wOp' = "convert"
  /\ wPick' = wFile
  /\ wPrev' = [file |-> wFile, resultBlob |-> resultBlob, error |-> error]
  /\ UNCHANGED <<wFile, progress, toolVars>>

\* setProgress is the callback (line 76): the widget renders the latest of
\* the events it was passed
RenderProgress ==
  /\ isConverting
  /\ wSeen < Len(received[wRun])
  /\ progress' = received[wRun][Len(received[wRun])]
  /\ wSeen' = Len(received[wRun])
  /\ UNCHANGED <<wFile, isConverting, resultBlob, error, wRun, wGiven, wOp, wPick, wPrev>>
  /\ UNCHANGED <<loaderVars, callVars, clusterVars, extractVars, toolVars>>

\* handleConvert after its await (lines 77-85): try, catch and finally.
\* SettleNoFinally is the handler without its finally block.
SettleNoFinally(p) ==
  /\ p = wRun
  /\ isConverting
  /\ pc[p] \in {"resolved", "rejected"}
  /\ IF pc[p] = "resolved"
     THEN /\ resultBlob' = result[p]
          /\ UNCHANGED error
     ELSE /\ error' = ConversionError
          /\ UNCHANGED resultBlob
  /\ UNCHANGED <<isConverting, progress>>
  /\ wSeen' = Len(received[p])
  /\ wOp' = "settle"
  /\ wPrev' = [file |-> wFile, resultBlob |-> resultBlob, error |-> error]
  /\ UNCHANGED <<wFile, wRun, wGiven, wPick>>
  /\ UNCHANGED <<loaderVars, callVars, clusterVars, extractVars, toolVars>>
Settle(p) ==
  /\ p = wRun
  /\ isConverting
  /\ pc[p] \in {"resolved", "rejected"}
  /\ IF pc[p] = "resolved"
     THEN /\ resultBlob' = result[p]
          /\ UNCHANGED error
     ELSE /\ error' = ConversionError
          /\ UNCHANGED resultBlob
  /\ isConverting' = FALSE
  /\ progress' = Null
  /\ wSeen' = Len(received[p])
  /\ wOp' = "settle"
  /\ wPrev' = [file |-> wFile, resultBlob |-> resultBlob, error |-> error]
  /\ UNCHANGED <<wFile, wRun, wGiven, wPick>>
  /\ UNCHANGED <<loaderVars, callVars, clusterVars, extractVars, toolVars>>

\* handleReset (lines 130-136), behind the X of the selected file (line 210)
\* and the new-file button of the result (line 269)
\* HandleResetKeepsResult forgets setResultBlob(null)
HandleResetKeepsResult ==
  /\ \/ wFile # Null /\ ~isConverting /\ resultBlob = NoBlob
     \/ resultBlob # NoBlob
  /\ wFile' = Null
  /\ error' = NoError
  /\ progress' = Null
  /\ wOp' = "reset"
  /\ wPick' = Null
  /\ wPrev' = [file |-> wFile, resultBlob |-> resultBlob, error |-> error]
  /\ UNCHANGED <<resultBlob, isConverting, wRun, wGiven, wSeen>>
  /\ UNCHANGED <<loaderVars, callVars, clusterVars, extractVars, toolVars>>
HandleReset ==
  /\ \/ wFile # Null /\ ~isConverting /\ resultBlob = NoBlob
     \/ resultBlob # NoBlob
  /\ wFile' = Null
  /\ resultBlob' = NoBlob
  /\ error' = NoError
  /\ progress' = Null
  /\ wOp' = "reset"
  /\ wPick' = Null
  /\ wPrev' = [file |-> wFile, resultBlob |-> resultBlob, error |-> error]
  /\ UNCHANGED <<isConverting, wRun, wGiven, wSeen>>
  /\ UNCHANGED <<loaderVars, callVars, clusterVars, extractVars, toolVars>>

\* ------------------------------------------------------------------------
\* generatePassword, stepped
\* ------------------------------------------------------------------------

\* lines 18-48: build the characters, fill the array with random values
PasswordStart ==
  /\ pwPc = "called"
  /\ pwChars' = PasswordChars(pwOptions)
  /\ pwArray' \in [1..pwOptions.length -> Uint32Samples]
  /\ password' = <<>>
  /\ pwI' = 0
  /\ pwPc' = "loop"
  /\ UNCHANGED pwOptions
  /\ UNCHANGED pwFrame

\* lines 50-52: one iteration of the loop (chars is 0-based in the source)
PasswordAppend ==
  /\ pwPc = "loop"
  /\ pwI < pwOptions.length
  /\ password' = Append(password, pwChars[(pwArray[pwI + 1] % Len(pwChars)) + 1])
  /\ pwI' = pwI + 1
  /\ UNCHANGED <<pwOptions, pwChars, pwArray, pwPc>>
  /\ UNCHANGED pwFrame

\* line 54
PasswordReturn ==
  /\ pwPc = "loop"
  /\ pwI >= pwOptions.length
  /\ pwPc' = "returned"
  /\ UNCHANGED <<pwOptions, pwChars, pwArray, password, pwI>>
  /\ UNCHANGED pwFrame

\* ------------------------------------------------------------------------
\* generateMultipleNumbers, stepped
\* ------------------------------------------------------------------------

\* generateRandomNumber (lines 5-21) for the value raw of the random source:
\* array[0] of line 15; Math.floor(Math.random() * range) of line 20 takes
\* the same values 0 .. range - 1
GenerateRandomNumber(min, max, raw) ==
  LET lo == IF min > max THEN max ELSE min
      hi == IF min > max THEN min ELSE max
      range == hi - lo + 1
  IN lo + (raw % range)

\* Math.min (line 71)
MathMin(a, b) == IF a < b THEN a ELSE b

\* lines 79-86: is the drawn number pushed
\* PushesAlways forgets the usedNumbers test of line 80
PushesAlways(unique, used, n) == TRUE
Pushes(unique, used, n) == unique => n \notin used

\* numbers.sort((a, b) => a - b) (line 90)
RECURSIVE InsertNumber(_, _)
InsertNumber(sorted, n) ==
  IF Len(sorted) = 0 THEN <<n>>
  ELSE IF n - Head(sorted) < 0 THEN <<n>> \o sorted
  ELSE <<Head(sorted)>> \o InsertNumber(Tail(sorted), n)

RECURSIVE SortNumbers(_)
SortNumbers(ns) ==
  IF Len(ns) = 0 THEN <<>>
  ELSE InsertNumber(SortNumbers(SubSeq(ns, 1, Len(ns) - 1)), ns[Len(ns)])

\* the inputs: min and max on both sides of zero, in either order
NumberValues == (0 - 1) .. MaxNum
NumberCounts == 0 .. MaxCount
\* values of the random source: every remainder of every range, twice
RawValues == 0 .. (2 * (MaxNum + 2) - 1)

\* lines 68-74
NumbersStart ==
  /\ numPc = "called"
  /\ actualCount' = IF numUnique THEN MathMin(numCount, numMax - numMin + 1)
                                 ELSE numCount
  /\ numbers' = <<>>
  /\ usedNumbers' = {}
  /\ numPc' = "loop"
  /\ UNCHANGED <<numMin, numMax, numCount, numUnique, numSorted, num>>
  /\ UNCHANGED numFrame

\* lines 76-87: one iteration of the loop
NumbersDraw(raw) ==
  /\ numPc = "loop"
  /\ Len(numbers) < actualCount
  /\ num' = GenerateRandomNumber(numMin, numMax, raw)
  /\ IF Pushes(numUnique, usedNumbers, num')
       THEN /\ numbers' = Append(numbers, num')
            /\ usedNumbers' = IF numUnique THEN usedNumbers \cup {num'}
                                           ELSE usedNumbers
       ELSE UNCHANGED <<numbers, usedNumbers>>
  /\ UNCHANGED <<numPc, numMin, numMax, numCount, numUnique, numSorted, actualCount>>
  /\ UNCHANGED numFrame

\* lines 89-93
NumbersReturn ==
  /\ numPc = "loop"
  /\ Len(numbers) >= actualCount
  /\ numbers' = IF numSorted THEN SortNumbers(numbers) ELSE numbers
  /\ numPc' = "returned"
  /\ UNCHANGED <<numMin, numMax, numCount, numUnique, numSorted, actualCount,
                 usedNumbers, num>>
  /\ UNCHANGED numFrame

\* ------------------------------------------------------------------------
\* toRoman, fromRoman, isValidRoman (src/lib/roman-numerals.ts)
\* ------------------------------------------------------------------------

\* ROMAN_VALUES_Additive leaves out the subtractive pairs
ROMAN_VALUES_Additive ==
  << [symbol |-> <<"M">>, value |-> 1000], [symbol |-> <<"D">>, value |-> 500],
     [symbol |-> <<"C">>, value |-> 100], [symbol |-> <<"L">>, value |-> 50],
     [symbol |-> <<"X">>, value |-> 10], [symbol |-> <<"V">>, value |-> 5],
     [symbol |-> <<"I">>, value |-> 1] >>
ROMAN_VALUES ==
  << [symbol |-> <<"M">>, value |-> 1000], [symbol |-> <<"C", "M">>, value |-> 900],
     [symbol |-> <<"D">>, value |-> 500], [symbol |-> <<"C", "D">>, value |-> 400],
     [symbol |-> <<"C">>, value |-> 100], [symbol |-> <<"X", "C">>, value |-> 90],
     [symbol |-> <<"L">>, value |-> 50], [symbol |-> <<"X", "L">>, value |-> 40],
     [symbol |-> <<"X">>, value |-> 10], [symbol |-> <<"I", "X">>, value |-> 9],
     [symbol |-> <<"V">>, value |-> 5], [symbol |-> <<"I", "V">>, value |-> 4],
     [symbol |-> <<"I">>, value |-> 1] >>

\* ROMAN_MAP (lines 19-27); undefined for any other character
ROMAN_MAP(c) ==
  CASE c = "I" -> 1 [] c = "V" -> 5 [] c = "X" -> 10 [] c = "L" -> 50
    [] c = "C" -> 100 [] c = "D" -> 500 [] c = "M" -> 1000

\* line 37: the largest number written
MaxRoman == 3999

UpperChar(c) ==
  IF \E k \in 1..Len(LowerCase) : LowerCase[k] = c
  THEN UpperCase[CHOOSE k \in 1..Len(LowerCase) : LowerCase[k] = c]
  ELSE c
\* String.prototype.toUpperCase
ToUpperCase(s) == [k \in 1..Len(s) |-> UpperChar(s[k])]

\* ROMAN_REGEX (line 30), matched on the number of characters consumed.
\* literal, ignoring case (the i flag)
AfterLiteral(s, from, lit) ==
  {p + Len(lit) : p \in {q \in from :
      /\ q + Len(lit) <= Len(s)
      /\ \A k \in 1..Len(lit) : UpperChar(s[q + k]) = lit[k]}}
\* c{lo,hi}
AfterRepeat(s, from, c, lo, hi) ==
  UNION {{p + n : n \in {m \in lo..hi :
      /\ p + m <= Len(s)
      /\ \A k \in 1..m : UpperChar(s[p + k]) = c}} : p \in from}
\* (nine|four|five?one{0,3})
AfterGroup(s, from, nine, four, five, one) ==
  AfterLiteral(s, from, nine) \cup AfterLiteral(s, from, four)
    \cup AfterRepeat(s, AfterRepeat(s, from, five, 0, 1), one, 0, 3)
RomanRegexTest(s) ==
  LET thousands == AfterRepeat(s, {0}, "M", 0, 3)
      hundreds == AfterGroup(s, thousands, <<"C", "M">>, <<"C", "D">>, "D", "C")
      tens == AfterGroup(s, hundreds, <<"X", "C">>, <<"X", "L">>, "L", "X")
      ones == AfterGroup(s, tens, <<"I", "X">>, <<"I", "V">>, "V", "I")
  IN Len(s) \in ones

\* isValidRoman (lines 79-83)
IsValidRoman(roman) ==
  LET upper == ToUpperCase(Trim(roman))
  IN IF Len(upper) = 0 THEN FALSE ELSE RomanRegexTest(upper)

\* toRoman (lines 36-50): k is the entry of ROMAN_VALUES the for loop is at
RECURSIVE ToRomanFrom(_, _, _)
ToRomanFrom(k, remaining, res) ==
  IF k > Len(ROMAN_VALUES) THEN res
  ELSE IF remaining >= ROMAN_VALUES[k].value
       THEN ToRomanFrom(k, remaining - ROMAN_VALUES[k].value,
                        res \o ROMAN_VALUES[k].symbol)
       ELSE ToRomanFrom(k + 1, remaining, res)
ToRoman(n) ==
  IF n < 1 \/ n > MaxRoman THEN <<>> ELSE ToRomanFrom(1, n, <<>>)

\* fromRoman (lines 56-74)
RECURSIVE FromRomanAt(_, _, _)
FromRomanAt(upper, j, res) ==
  IF j > Len(upper) THEN res
  ELSE LET current == ROMAN_MAP(upper[j])
           next == IF j + 1 <= Len(upper) THEN ROMAN_MAP(upper[j + 1]) ELSE 0
       IN FromRomanAt(upper, j + 1,
                      IF current < next THEN res - current ELSE res + current)
FromRoman(roman) ==
  LET upper == ToUpperCase(Trim(roman))
  IN IF ~IsValidRoman(upper) THEN 0 ELSE FromRomanAt(upper, 1, 0)

\* the numbers given to toRoman: 1..3999 and OutOfRange numbers on each side
RomanNumbers == (1 - OutOfRange) .. (MaxRoman + OutOfRange)
\* the strings given to fromRoman: up to MaxRomanLen of these characters
RomanChars == {"I", "V", "X", "M", "i", "x", SP, "A"}
RECURSIVE RomanTexts(_)
RomanTexts(n) ==
  IF n = 0 THEN {<<>>}
  ELSE LET shorter == RomanTexts(n - 1)
       IN shorter \cup {Append(t, c) : t \in {u \in shorter : Len(u) = n - 1},
                                         c \in RomanChars}

\* toRoman(num)
RomanConvert ==
  /\ rmPc = "number"
  /\ rmRoman' = ToRoman(rmNum)
  /\ rmPc' = "converted"
  /\ UNCHANGED <<rmNum, rmText, rmValue>>
  /\ UNCHANGED rmFrame

\* fromRoman of what toRoman returned
RomanBack ==
  /\ rmPc = "converted"
  /\ rmValue' = FromRoman(rmRoman)
  /\ rmPc' = "back"
  /\ UNCHANGED <<rmNum, rmText, rmRoman>>
  /\ UNCHANGED rmFrame

\* fromRoman(roman)
RomanParse ==
  /\ rmPc = "text"
  /\ rmValue' = FromRoman(rmText)
  /\ rmPc' = "parsed"
  /\ UNCHANGED <<rmNum, rmText, rmRoman>>
  /\ UNCHANGED rmFrame

\* ------------------------------------------------------------------------
\* caesarEncrypt, caesarDecrypt (src/lib/roman-numerals.ts)
\* ------------------------------------------------------------------------

\* lines 88-90
UPPER_A == 65
LOWER_A == 97
ALPHA_SIZE == 26

\* the % of JavaScript: the remainder has the sign of the dividend
JsRem(a, b) == IF a >= 0 THEN a % b ELSE 0 - ((0 - a) % b)

\* shiftChar (lines 92-107) on the code unit of char
ShiftChar(code, shift) ==
  IF code >= UPPER_A /\ code < UPPER_A + ALPHA_SIZE
  THEN JsRem(JsRem(code - UPPER_A + shift, ALPHA_SIZE) + ALPHA_SIZE, ALPHA_SIZE)
         + UPPER_A
  ELSE IF code >= LOWER_A /\ code < LOWER_A + ALPHA_SIZE
  THEN JsRem(JsRem(code - LOWER_A + shift, ALPHA_SIZE) + ALPHA_SIZE, ALPHA_SIZE)
         + LOWER_A
  ELSE code

\* caesarEncrypt (lines 114-117)
CaesarEncrypt(text, shift) ==
  LET normalizedShift == JsRem(JsRem(shift, ALPHA_SIZE) + ALPHA_SIZE, ALPHA_SIZE)
  IN [k \in 1..Len(text) |-> ShiftChar(text[k], normalizedShift)]

\* caesarDecrypt (lines 123-125)
\* CaesarDecryptForward shifts the same way again
CaesarDecryptForward(text, shift) == CaesarEncrypt(text, shift)
CaesarDecrypt(text, shift) == CaesarEncrypt(text, 0 - shift)

\* the code units of the texts: blank, @ A Z [ and ` a z {
CaesarCodes == {32, 64, 65, 90, 91, 96, 97, 122, 123}
RECURSIVE CaesarTexts(_)
CaesarTexts(n) ==
  IF n = 0 THEN {<<>>}
  ELSE LET shorter == CaesarTexts(n - 1)
       IN shorter \cup {Append(t, c) : t \in {u \in shorter : Len(u) = n - 1},
                                         c \in CaesarCodes}
CaesarShifts == (0 - MaxShift) .. MaxShift

CaesarEncryptCall ==
  /\ csPc = "input"
  /\ csEncrypted' = CaesarEncrypt(csText, csShift)
  /\ csPc' = "encrypted"
  /\ UNCHANGED <<csText, csShift, csDecrypted>>
  /\ UNCHANGED csFrame

CaesarDecryptCall ==
  /\ csPc = "encrypted"
  /\ csDecrypted' = CaesarDecrypt(csEncrypted, csShift)
  /\ csPc' = "decrypted"
  /\ UNCHANGED <<csText, csShift, csEncrypted>>
  /\ UNCHANGED csFrame

\* ------------------------------------------------------------------------
\* Metronome (src/components/metronome/metronome.tsx)
\* ------------------------------------------------------------------------

\* line 52, the unit of time of the model
SCHEDULE_AHEAD == 1
\* 60.0 / bpm (line 105) in that unit: the 300 bpm of line 231 give 0.2 s
SecondsPerBeat == 2
\* timeSignature.beats of the 2/4 of line 43
Beats == 2

MathMax(a, b) == IF a > b THEN a ELSE b

\* the while loop of the scheduler (lines 94-109) at time now; st holds
\* nextNoteTimeRef.current, currentBeatRef.current and the timers
RECURSIVE Scheduler(_, _)
Scheduler(st, now) ==
  IF st.nextNoteTime < now + SCHEDULE_AHEAD
  THEN Scheduler([nextNoteTime |-> st.nextNoteTime + SecondsPerBeat,
                  beat |-> (st.beat + 1) % Beats,
                  timers |-> Append(st.timers,
                               [beatToShow |-> st.beat,
                                due |-> now + MathMax(0, st.nextNoteTime - now)])],
                 now)
  ELSE st

\* startMetronome by togglePlay (lines 113-133, 172-178), the render and the
\* effect of lines 146-157: the interval and the first run of the scheduler
StartMetronome ==
  /\ ~isPlayingRef
  /\ LET st == Scheduler([nextNoteTime |-> ctxTime, beat |-> 0, timers |-> timeouts],
                         ctxTime)
     IN /\ Len(st.timers) <= MaxTimers
        /\ nextNoteTimeRef' = st.nextNoteTime
        /\ currentBeatRef' = st.beat
        /\ timeouts' = st.timers
  /\ audioContextRef' = TRUE
  /\ isPlayingRef' = TRUE
  /\ isPlaying' = TRUE
  /\ currentBeat' = 0
  /\ timerIdRef' = TRUE
  /\ UNCHANGED ctxTime
  /\ UNCHANGED mtFrame

\* the interval of line 148 runs the scheduler
SchedulerTick ==
  /\ timerIdRef
  /\ audioContextRef
  /\ LET st == Scheduler([nextNoteTime |-> nextNoteTimeRef, beat |-> currentBeatRef,
                          timers |-> timeouts], ctxTime)
     IN /\ Len(st.timers) <= MaxTimers
        /\ nextNoteTimeRef' = st.nextNoteTime
        /\ currentBeatRef' = st.beat
        /\ timeouts' = st.timers
  /\ UNCHANGED <<isPlaying, currentBeat, audioContextRef, timerIdRef, isPlayingRef,
                 ctxTime>>
  /\ UNCHANGED mtFrame

\* the timer that runs next: the earliest due, the first created of these
NextTimeout ==
  CHOOSE k \in 1..Len(timeouts) :
    \A j \in 1..Len(timeouts) :
      \/ timeouts[k].due < timeouts[j].due
      \/ timeouts[k].due = timeouts[j].due /\ k <= j

RemoveAt(seq, k) == SubSeq(seq, 1, k - 1) \o SubSeq(seq, k + 1, Len(seq))

\* the callback of a display timer (lines 100-102)
DisplayTimeout ==
  /\ Len(timeouts) > 0
  /\ timeouts[NextTimeout].due <= ctxTime
  /\ currentBeat' = timeouts[NextTimeout].beatToShow
  /\ timeouts' = RemoveAt(timeouts, NextTimeout)
  /\ UNCHANGED <<isPlaying, audioContextRef, timerIdRef, nextNoteTimeRef,
                 currentBeatRef, isPlayingRef, ctxTime>>
  /\ UNCHANGED mtFrame

\* stopMetronome by togglePlay (lines 135-143), the render and the cleanup
\* of lines 152-155
StopMetronome ==
  /\ isPlayingRef
  /\ isPlayingRef' = FALSE
  /\ isPlaying' = FALSE
  /\ currentBeat' = 0 - 1
  /\ timerIdRef' = FALSE
  /\ UNCHANGED <<audioContextRef, nextNoteTimeRef, currentBeatRef, ctxTime, timeouts>>
  /\ UNCHANGED mtFrame

\* time passes
TimePasses ==
  /\ ctxTime < MaxTime
  /\ ctxTime' = ctxTime + 1
  /\ UNCHANGED <<isPlaying, currentBeat, audioContextRef, timerIdRef, nextNoteTimeRef,
                 currentBeatRef, isPlayingRef, timeouts>>
  /\ UNCHANGED mtFrame

\* ------------------------------------------------------------------------
\* The locale middleware (getPreferredLocale, middleware) and i18n
\* ------------------------------------------------------------------------

\* src/lib/password.ts, lines 125-128
i18n == [defaultLocale |-> <<"p", "l">>, locales |-> << <<"p", "l">> >>]

\* i18n.locales.includes
IsLocale(code) == \E k \in 1..Len(i18n.locales) : i18n.locales[k] = code

\* String.prototype.startsWith
StartsWith(s, prefix) ==
  /\ Len(s) >= Len(prefix)
  /\ SubSeq(s, 1, Len(prefix)) = prefix

\* split("-")[0]
RECURSIVE BeforeDash(_)
BeforeDash(s) ==
  IF Len(s) = 0 \/ Head(s) = "-" THEN <<>> ELSE <<Head(s)>> \o BeforeDash(Tail(s))

\* lines 226-232: one entry of the header, split at ";q=" into tag and q
\* (q empty when the entry has none)
ParseLang(lang) ==
  [code |-> ToLowerCase(BeforeDash(Trim(lang.tag))),
   quality |-> IF Len(lang.q) > 0 THEN lang.q[1] ELSE FullQuality]

\* line 233: the stable sort by falling quality
RECURSIVE InsertLang(_, _)
InsertLang(sorted, lang) ==
  IF Len(sorted) = 0 THEN <<lang>>
  ELSE IF lang.quality - Head(sorted).quality > 0 THEN <<lang>> \o sorted
  ELSE <<Head(sorted)>> \o InsertLang(Tail(sorted), lang)
RECURSIVE SortLangs(_)
SortLangs(ls) ==
  IF Len(ls) = 0 THEN <<>>
  ELSE InsertLang(SortLangs(SubSeq(ls, 1, Len(ls) - 1)), ls[Len(ls)])

\* getPreferredLocale (lines 214-244)
GetPreferredLocale(cookieLocale, acceptLanguage) ==
  IF Len(cookieLocale) > 0 /\ IsLocale(cookieLocale)
  THEN cookieLocale
  ELSE LET languages ==
             IF Len(acceptLanguage) > 0
             THEN SortLangs([k \in 1..Len(acceptLanguage) |->
                               ParseLang(acceptLanguage[k])])
             ELSE <<>>
           supported == {k \in 1..Len(languages) : IsLocale(languages[k].code)}
       IN IF supported # {}
          THEN languages[CHOOSE k \in supported : \A j \in supported : k <= j].code
          ELSE i18n.defaultLocale

\* lines 250-252
\* PathnameHasLocaleSlashOnly leaves out pathname === `/${locale}`
PathnameHasLocaleSlashOnly(pathname) ==
  \E k \in 1..Len(i18n.locales) :
    StartsWith(pathname, <<"/">> \o i18n.locales[k] \o <<"/">>)
PathnameHasLocale(pathname) ==
  \E k \in 1..Len(i18n.locales) :
    \/ StartsWith(pathname, <<"/">> \o i18n.locales[k] \o <<"/">>)
    \/ pathname = <<"/">> \o i18n.locales[k]

\* lines 259-267: where the redirect goes
RedirectTarget(pathname, locale) ==
  IF pathname = <<"/">> THEN <<"/">> \o locale ELSE <<"/">> \o locale \o pathname

\* the requests: pathnames of up to MaxPathLen characters, as the matcher of
\* line 271 lets through (no dot)
PathChars == {"/", "p", "l", "x"}
RECURSIVE Pathnames(_)
Pathnames(n) ==
  IF n = 1 THEN {<<"/">>}
  ELSE LET shorter == Pathnames(n - 1)
       IN shorter \cup {Append(t, c) : t \in {u \in shorter : Len(u) = n - 1},
                                         c \in PathChars}
Cookies == {<<>>, <<"p", "l">>, <<"e", "n">>}
LangTags == {<<"p", "l", "-", "P", "L">>, <<"e", "n", "-", "U", "S">>, <<SP, "P", "L">>}
Langs == [tag : LangTags, q : {<<>>, <<HalfQuality>>}]
RECURSIVE AcceptLanguages(_)
AcceptLanguages(n) ==
  IF n = 0 THEN {<<>>}
  ELSE LET shorter == AcceptLanguages(n - 1)
       IN shorter \cup {Append(t, l) : t \in {u \in shorter : Len(u) = n - 1},
                                         l \in Langs}

\* lines 254-256
MiddlewareNext ==
  /\ mwOutcome = "request"
  /\ PathnameHasLocale(mwPathname)
  /\ mwOutcome' = "next"
  /\ UNCHANGED <<mwPathname, mwCookie, mwAccept, mwFirst, mwLocale, mwRedirects>>
  /\ UNCHANGED mwFrame

\* lines 259-267, and the client requesting the location it is sent to
MiddlewareRedirect ==
  /\ mwOutcome = "request"
  /\ ~PathnameHasLocale(mwPathname)
  /\ mwRedirects < MaxRedirects
  /\ mwLocale' = GetPreferredLocale(mwCookie, mwAccept)
  /\ mwPathname' = RedirectTarget(mwPathname, mwLocale')
  /\ mwRedirects' = mwRedirects + 1
  /\ UNCHANGED <<mwCookie, mwAccept, mwOutcome, mwFirst>>
  /\ UNCHANGED mwFrame

\* ------------------------------------------------------------------------
\* Specifications
\* ------------------------------------------------------------------------

Next ==
  \/ \E p \in Calls : Call(p)
  \/ \E k \in 1..NumCalls : ScriptOnload(k)
  \/ \E k \in 1..NumCalls : ScriptOnerror(k)
  \/ \E p \in Calls : ResumeLib(p)
  \/ \E p \in Calls : ResumeBuffer(p)
  \/ \E p \in Calls : ResumeDocument(p)
  \/ \E p \in Calls : ResumePage(p)
  \/ \E p \in Calls : ResumeText(p)
  \/ \E p \in Calls : ResumeExtract(p)
  \/ \E p \in Calls : ResumeDocx(p)
  \/ \E p \in Calls : ResumeBlob(p)

\* one invocation, any document of up to MaxPages pages
Init ==
  /\ InitLoader
  /\ InitCalls({[p \in Calls |-> IF p = 1 THEN f ELSE <<EmptyPage>>] : f \in Files}, {1})
  /\ InitCluster({EmptyPage})
  /\ InitWidget
  /\ InitTools

Spec == Init /\ [][Next]_vars

\* NumCalls invocations started in any order and interleaved at their awaits
InitConc ==
  /\ InitLoader
  /\ InitCalls({[p \in Calls |-> ConcFile(p)]}, Calls)
  /\ InitCluster({EmptyPage})
  /\ InitWidget
  /\ InitTools

SpecConc == InitConc /\ [][Next]_vars

\* the run lists clustered: up to MaxRuns runs at Y coordinates 0..MaxY
RunKinds == {Item(<<"a">>, 0, 0, FALSE), Item(EmptyStr, 0, 0, TRUE),
             Item(<<SP>>, 0, 0, FALSE)}
Runs == {[r EXCEPT !.ty = MaxY - y] : r \in RunKinds, y \in 0..MaxY}
ClusterPages == {Page(items, MaxY) : items \in SeqsUpTo(Runs, MaxRuns)}

InitClusterSpec ==
  /\ InitLoader
  /\ windowLib = NoLib
  /\ InitCalls({[p \in Calls |-> <<EmptyPage>>]}, {})
  /\ InitCluster(ClusterPages)
  /\ InitWidget
  /\ InitTools

SpecCluster == InitClusterSpec /\ [][ClusterNext]_vars

\* The pages extractPageText is stepped over.
\* Stacked runs: every run at X 0 and at one of the Y coordinates of StackYs
\* (distances 2, 10, 11, 12 and more); the k-th run is the k-th letter, an
\* empty end-of-line marker or a blank.
Letters == <<"a", "b", "c", "d", "e">>
StackYs == {0, 2, 12, 23}
StackKinds == {"text", "eol", "blank"}
StackRun(k, kind, y) ==
  Item(IF kind = "text" THEN <<Letters[k]>>
       ELSE IF kind = "eol" THEN EmptyStr ELSE <<SP>>,
       0, PageHeight - y, kind = "eol")
RECURSIVE StackSeqs(_)
StackSeqs(n) ==
  IF n = 0 THEN {<<>>}
  ELSE {Append(s, StackRun(n, kind, y)) :
          s \in StackSeqs(n - 1), kind \in StackKinds, y \in StackYs}
StackPages(n) == {Page(s, PageHeight) : s \in StackSeqs(n)}
\* Side-by-side runs: letters at X 10, 20 or 30, on two Y coordinates that
\* fall into one line
SideXs == {10, 20, 30}
SideYs == {0, 2}
RECURSIVE SideSeqs(_)
SideSeqs(n) ==
  IF n = 0 THEN {<<>>}
  ELSE {Append(s, Item(<<Letters[n]>>, x, PageHeight - y, FALSE)) :
          s \in SideSeqs(n - 1), x \in SideXs, y \in SideYs}
SidePages(n) == {Page(s, PageHeight) : s \in SideSeqs(n)}
\* three runs of one line arriving at X 30, 10, 20
LeftToRightPage ==
  Page(<<Item(<<"c">>, 30, 50, FALSE), Item(<<"a">>, 10, 50, FALSE),
         Item(<<"b">>, 20, 50, FALSE)>>, PageHeight)
\* three lines at Y 0, 5 and 20
GapPage ==
  Page(<<Item(<<"a">>, 0, PageHeight, FALSE), Item(<<"b">>, 0, PageHeight - 5, FALSE),
         Item(<<"c">>, 0, PageHeight - 20, FALSE)>>, PageHeight)
\* lines at Y 10, 15 and 30, the middle one a blank end-of-line marker, and
\* a blank end-of-line marker behind the text of the first line
SkippedLinePage ==
  Page(<<Item(<<"a">>, 0, PageHeight - 10, FALSE),
         Item(<<SP>>, 5, PageHeight - 10, TRUE),
         Item(<<SP>>, 0, PageHeight - 15, TRUE),
         Item(<<"b">>, 0, PageHeight - 30, FALSE)>>, PageHeight)
ExamplePages == PageSamples \cup {LeftToRightPage, GapPage, SkippedLinePage}

\* the pages of exactly n runs
ExtractPages(n) == StackPages(n) \cup SidePages(n)

ExtractNext ==
  \/ ExtractEmpty
  \/ ClusterNext
  \/ SortAndText
  \/ ParagraphNext
  \/ ParagraphsReturn

InitExtract ==
  /\ InitLoader
  /\ windowLib = NoLib
  /\ InitCalls({[p \in Calls |-> <<EmptyPage>>]}, {})
  /\ \/ \E n \in 0..MaxRuns : InitCluster(ExtractPages(n))
     \/ InitCluster(ExamplePages)
  /\ InitWidget
  /\ InitTools

SpecExtract == InitExtract /\ [][ExtractNext]_vars

\* the widget: the user selects, converts and resets; the conversions run
\* one after the other, each suspended at its awaits; setProgress, the
\* callback, does not throw
CallbackReturns == \A p \in Calls : failure'[p].why # "callback"

NextWidget ==
  \/ \E f \in Candidates : HandleFileSelect(f)
  \/ \E p \in Calls : HandleConvert(p)
  \/ RenderProgress
  \/ \E p \in Calls : Settle(p)
  \/ HandleReset
  \/ \E k \in 1..NumCalls : ScriptOnload(k)
  \/ \E k \in 1..NumCalls : ScriptOnerror(k)
  \/ \E p \in Calls : ResumeLib(p)
  \/ \E p \in Calls : ResumeBuffer(p)
  \/ (\E p \in Calls : ResumeDocument(p)) /\ CallbackReturns
  \/ \E p \in Calls : ResumePage(p)
  \/ \E p \in Calls : ResumeText(p)
  \/ (\E p \in Calls : ResumeExtract(p)) /\ CallbackReturns
  \/ \E p \in Calls : ResumeDocx(p)
  \/ \E p \in Calls : ResumeBlob(p)

InitWidgetSpec ==
  /\ InitLoader
  /\ InitCalls({[p \in Calls |-> <<>>]}, {})
  /\ InitCluster({EmptyPage})
  /\ InitWidget
  /\ InitTools

SpecWidget == InitWidgetSpec /\ [][NextWidget]_vars

\* nothing of the PDF converter is running
InitPdfIdle ==
  /\ InitLoader
  /\ windowLib = NoLib
  /\ InitCalls({[p \in Calls |-> <<>>]}, {})
  /\ InitCluster({EmptyPage})
  /\ InitWidget

\* generatePassword called with any options
NextPassword ==
  \/ PasswordStart
  \/ PasswordAppend
  \/ PasswordReturn

InitPasswordSpec ==
  /\ InitPdfIdle
  /\ InitPassword(PasswordOptions, "called")
  /\ NumbersIdle
  /\ RomanIdle
  /\ CaesarIdle
  /\ InitMetronome
  /\ MiddlewareIdle

SpecPassword == InitPasswordSpec /\ [][NextPassword]_vars

\* one call of generateMultipleNumbers with any arguments
NextNumbers ==
  \/ NumbersStart
  \/ \E raw \in RawValues : NumbersDraw(raw)
  \/ NumbersReturn

InitNumbersSpec ==
  /\ InitPdfIdle
  /\ PasswordIdle
  /\ InitNumbers(NumberValues, NumberValues, NumberCounts, BOOLEAN, "called")
  /\ RomanIdle
  /\ CaesarIdle
  /\ InitMetronome
  /\ MiddlewareIdle

\* the call runs on, and the random source produces each of its values
\* again and again
SpecNumbers ==
  /\ InitNumbersSpec
  /\ [][NextNumbers]_vars
  /\ WF_vars(NumbersStart)
  /\ WF_vars(NumbersReturn)
  /\ \A raw \in RawValues : WF_vars(NumbersDraw(raw))

\* toRoman and back for any number, fromRoman for any string
NextRoman ==
  \/ RomanConvert
  \/ RomanBack
  \/ RomanParse

InitRomanSpec ==
  /\ InitPdfIdle
  /\ PasswordIdle
  /\ NumbersIdle
  /\ \/ InitRoman(RomanNumbers, {<<>>}, "number")
     \/ InitRoman({0}, RomanTexts(MaxRomanLen), "text")
  /\ CaesarIdle
  /\ InitMetronome
  /\ MiddlewareIdle

SpecRoman == InitRomanSpec /\ [][NextRoman]_vars

\* encrypt, then decrypt, any text with any shift
NextCaesar ==
  \/ CaesarEncryptCall
  \/ CaesarDecryptCall

InitCaesarSpec ==
  /\ InitPdfIdle
  /\ PasswordIdle
  /\ NumbersIdle
  /\ RomanIdle
  /\ InitCaesar(CaesarTexts(MaxCaesarLen), CaesarShifts, "input")
  /\ InitMetronome
  /\ MiddlewareIdle

SpecCaesar == InitCaesarSpec /\ [][NextCaesar]_vars

\* the Metronome, started and stopped at any time
NextMetronome ==
  \/ StartMetronome
  \/ SchedulerTick
  \/ DisplayTimeout
  \/ StopMetronome
  \/ TimePasses

InitMetronomeSpec ==
  /\ InitPdfIdle
  /\ PasswordIdle
  /\ NumbersIdle
  /\ RomanIdle
  /\ CaesarIdle
  /\ InitMetronome
  /\ MiddlewareIdle

SpecMetronome == InitMetronomeSpec /\ [][NextMetronome]_vars

\* one request of any path with any cookie and header, its redirects followed
NextMiddleware ==
  \/ MiddlewareNext
  \/ MiddlewareRedirect

InitMiddlewareSpec ==
  /\ InitPdfIdle
  /\ PasswordIdle
  /\ NumbersIdle
  /\ RomanIdle
  /\ CaesarIdle
  /\ InitMetronome
  /\ InitMiddleware(Pathnames(MaxPathLen), Cookies, AcceptLanguages(MaxLangs),
                    "request")

SpecMiddleware == InitMiddlewareSpec /\ [][NextMiddleware]_vars

\* ------------------------------------------------------------------------
\* Vocabulary of the properties
\* ------------------------------------------------------------------------

\* the stepped extraction returns what the function computes at once
SteppedAgrees == xPhase = "returned" => xResult = ExtractPageText(cPage)

HasEv(p, ev) == \E k \in 1..Len(log[p]) : log[p][k].ev = ev
CountEv(p, ev, page) == Cardinality({k \in 1..Len(log[p]) : log[p][k] = Ev(ev, page)})

\* the invocation has assembled its block sequence
Assembled(p) == HasEv(p, "toBlob")

Breaks(blocks) == {k \in 1..Len(blocks) : blocks[k].kind = "pagebreak"}

\* position of the n-th page break; 0 before the first block, Len+1 past the end
BreakPos(blocks, n) ==
  IF n = 0 THEN 0
  ELSE IF n > Cardinality(Breaks(blocks)) THEN Len(blocks) + 1
  ELSE CHOOSE k \in Breaks(blocks) :
         Cardinality({j \in Breaks(blocks) : j <= k}) = n

\* the blocks between the (n-1)-th and the n-th page break: those of page n
Segment(blocks, n) ==
  SubSeq(blocks, BreakPos(blocks, n - 1) + 1, BreakPos(blocks, n) - 1)

\* number of blocks pages 1..n contribute, page breaks aside
RECURSIVE BlocksUpTo(_, _)
BlocksUpTo(allTexts, n) ==
  IF n = 0 THEN 0
  ELSE BlocksUpTo(allTexts, n - 1)
         + (IF allTexts[n] = <<>> THEN 1 ELSE Len(allTexts[n]))

\* ------------------------------------------------------------------------
\* Properties
\* ------------------------------------------------------------------------

\* C1: the assembled block sequence of a document of totalPages >= 1 pages
\* holds exactly totalPages - 1 page breaks: the n-th directly after the
\* blocks of page n, for every page but the last, and none after the last.
C1_PageBreaks ==
  \A p \in Calls : Assembled(p) =>
    LET b == children[p]
        N == totalPages[p]
    IN  /\ N >= 1
        /\ Cardinality(Breaks(b)) = N - 1
        /\ b # <<>> /\ b[Len(b)].kind # "pagebreak"
        /\ \A n \in 1..(N - 1) :
             BreakPos(b, n) = BlocksUpTo(allPageTexts[p], n) + n

\* a three-block document: two pages, one break between them
C1_Witness ==
  /\ pc[1] = "resolved"
  /\ totalPages[1] = 2
  /\ Cardinality(Breaks(result[1].blocks)) = 1
  /\ Len(result[1].blocks) >= 3

\* C2: a page whose run list is empty, or whose paragraph list is empty,
\* contributes exactly one block, the placeholder with its 1-based page
\* number, and no ordinary paragraph block, wherever the page stands.
C2_EmptyPagePlaceholder ==
  \A p \in Calls : Assembled(p) =>
    \A n \in 1..Len(file[p]) :
      (file[p][n].items = <<>> \/ allPageTexts[p][n] = <<>>) =>
        LET seg == Segment(children[p], n)
        IN  /\ Len(seg) = 1
            /\ seg[1].kind = "paragraph"
            /\ seg[1].italics
            /\ seg[1].text = <<"[Strona ", ToString(n), " - brak tekstu]">>

\* an empty page first and an empty page last, in one document
C2_Witness ==
  /\ pc[1] = "resolved"
  /\ Len(file[1]) = 2
  /\ file[1][1] = BlankPage
  /\ file[1][2] = EmptyPage
  /\ Len(result[1].blocks) = 3

\* C3: pages come out in ascending page number; a page of k >= 1 paragraphs
\* contributes exactly k text blocks, the j-th carrying its j-th paragraph,
\* with no block of another page in between.
C3_OrderPreserved ==
  \A p \in Calls :
    /\ \A n \in 1..Len(allPageTexts[p]) :
         allPageTexts[p][n] = ExtractPageText(file[p][n])
    /\ Assembled(p) =>
         \A n \in 1..Len(file[p]) :
           LET paras == ExtractPageText(file[p][n])
               seg == Segment(children[p], n)
           IN  Len(paras) >= 1 =>
                 /\ Len(seg) = Len(paras)
                 /\ \A j \in 1..Len(paras) :
                      /\ seg[j].kind = "paragraph"
                      /\ ~seg[j].italics
                      /\ seg[j].text = paras[j]

\* a two-paragraph page followed by a one-paragraph page
C3_Witness ==
  /\ pc[1] = "resolved"
  /\ file[1] = <<TwoParaPage, HelloPage>>
  /\ Len(result[1].blocks) = 4
  /\ result[1].blocks[4].text = <<"Hello", SP, "world">>

\* C4: a successful conversion of an N-page document has passed its callback
\* exactly N "extracting" events with currentPage 1, 2, ..., N and
\* totalPages N, then exactly one "generating" event, and nothing else; at
\* any earlier moment the callback has seen a prefix of that sequence.
C4_ProgressSequence ==
  \A p \in Calls :
    LET N == Len(file[p])
        r == received[p]
    IN  /\ Len(r) <= N + 1
        /\ \A k \in 1..Len(r) :
             IF k <= N
             THEN r[k] = [currentPage |-> k, totalPages |-> N, stage |-> "extracting"]
             ELSE r[k].stage = "generating" /\ r[k].totalPages = N
        /\ pc[p] = "resolved" => Len(r) = N + 1

C4_Witness ==
  /\ pc[1] = "resolved"
  /\ Len(file[1]) = 2
  /\ Len(received[1]) = 3
  /\ received[1][2].currentPage = 2
  /\ received[1][3].stage = "generating"

\* C5: pages are processed one at a time.  In the invocation's sequence of
\* calls and callbacks, progress(i) is directly followed by getPage(i), that
\* by getTextContent(i), that by the end of page i's extraction, that by the
\* push of page i's paragraphs, and only that by progress(i+1), or by the
\* generating event after the last page; the accumulator holds one entry
\* per push.
C5_Sequential ==
  \A p \in Calls :
    LET L == log[p]
        N == Len(file[p])
    IN  /\ \A k \in 1..(Len(L) - 1) :
             /\ L[k].ev = "progress" =>
                  L[k + 1] \in {Ev("getPage", L[k].page), Ev("threw", L[k].page)}
             /\ L[k].ev = "getPage" => L[k + 1] = Ev("getTextContent", L[k].page)
             /\ L[k].ev = "getTextContent" => L[k + 1] = Ev("extracted", L[k].page)
             /\ L[k].ev = "extracted" => L[k + 1] = Ev("push", L[k].page)
             /\ L[k].ev = "push" =>
                  L[k + 1] = (IF L[k].page < N THEN Ev("progress", L[k].page + 1)
                              ELSE Ev("generating", N))
        /\ \A k \in 1..Len(L) :
             /\ L[k].ev = "progress" =>
                  /\ k > 1
                  /\ IF L[k].page = 1 THEN L[k - 1].ev = "getDocument"
                     ELSE L[k - 1] = Ev("push", L[k].page - 1)
             /\ L[k].ev = "getPage" => k > 1 /\ L[k - 1] = Ev("progress", L[k].page)
             /\ L[k].ev = "generating" => k > 1 /\ L[k - 1] = Ev("push", N)
        /\ Len(allPageTexts[p]) =
             Cardinality({k \in 1..Len(L) : L[k].ev = "push"})
        /\ \A n \in 1..Len(allPageTexts[p]) : CountEv(p, "push", n) = 1

\* page 2's text is being read, page 1's paragraphs are already appended
C5_Witness ==
  /\ pc[1] = "awaitText"
  /\ i[1] = 2
  /\ Len(allPageTexts[1]) = 1
  /\ log[1][Len(log[1])] = Ev("getTextContent", 2)

\* C6: all-or-nothing, no retry.  A conversion that failed is rejected and
\* has no blob; once getPage or text extraction failed on page k there is no
\* extracting event for a page > k, no generating event and no
\* serialization; and no backend call is issued twice for a page.
C6_AllOrNothing ==
  \A p \in Calls :
    /\ failure[p] # NoFailure => pc[p] = "rejected" /\ result[p] = NoBlob
    /\ pc[p] = "rejected" => failure[p] # NoFailure /\ result[p] = NoBlob
    /\ failure[p].why \in {"getPage", "getTextContent"} =>
         /\ \A k \in 1..Len(received[p]) :
              /\ received[p][k].stage = "extracting"
              /\ received[p][k].currentPage <= failure[p].page
         /\ ~HasEv(p, "generating")
         /\ ~HasEv(p, "toBlob")
         /\ Len(allPageTexts[p]) = failure[p].page - 1
    /\ failure[p].why \in {"import", "toBlob"} => result[p] = NoBlob
    /\ \A n \in 1..Len(file[p]) :
         /\ CountEv(p, "getPage", n) <= 1
         /\ CountEv(p, "getTextContent", n) <= 1
    /\ CountEv(p, "toBlob", 0) <= 1

\* text extraction failed on page 1 of a two-page document
C6_Witness ==
  /\ pc[1] = "rejected"
  /\ failure[1] = [why |-> "getTextContent", page |-> 1]
  /\ Len(file[1]) = 2
  /\ CountEv(1, "getTextContent", 1) = 1

\* C7: when the progress callback throws, on the extracting event of page i
\* or on the generating event, the conversion rejects at once: page i is not
\* fetched (serialization is not started) and no later event is emitted.
C7_CallbackThrows ==
  \A p \in Calls :
    \A k \in 1..Len(log[p]) :
      log[p][k].ev = "threw" =>
        /\ k = Len(log[p])
        /\ k > 1
        /\ pc[p] = "rejected"
        /\ result[p] = NoBlob
        /\ failure[p].why = "callback"
        /\ log[p][k - 1].ev \in {"progress", "generating"}
        /\ log[p][k - 1].ev = "progress" =>
             /\ log[p][k - 1].page = log[p][k].page
             /\ CountEv(p, "getPage", log[p][k].page) = 0
             /\ received[p][Len(received[p])].stage = "extracting"
             /\ received[p][Len(received[p])].currentPage = log[p][k].page
        /\ log[p][k - 1].ev = "generating" =>
             /\ ~HasEv(p, "import")
             /\ ~HasEv(p, "toBlob")
             /\ received[p][Len(received[p])].stage = "generating"
        /\ Len(received[p]) =
             Cardinality({j \in 1..k : log[p][j].ev \in {"progress", "generating"}})

\* the callback threw on page 2's extracting event, after page 1 was done
C7_Witness ==
  /\ pc[1] = "rejected"
  /\ failure[1] = [why |-> "callback", page |-> 2]
  /\ log[1][Len(log[1])].ev = "threw"
  /\ Len(allPageTexts[1]) = 1
  /\ Len(received[1]) = 2

\* script elements appended to document.head
NumScripts == Cardinality({k \in 1..Len(promises) : promises[k].script # "none"})

Called(p) == pc[p] \notin {"idle", "off"}

\* C8 as stated: however many invocations call loadPdfJs before the first
\* load has completed, exactly one script element is injected, every caller
\* waits on the same load and receives the same handle, and later calls
\* inject nothing.
C8_ExactlyOneScript ==
  (\E p \in Calls : Called(p)) =>
    /\ NumScripts = 1
    /\ Len(promises) = 1
    /\ \A p \in Calls : via[p] \in {"new", "inflight"} => waitOn[p] = 1
    /\ \A p, q \in Calls : lib[p] # NoLib /\ lib[q] # NoLib => lib[p] = lib[q]

\* C8, amended: loadPdfJs creates one promise, whatever the number and the
\* interleaving of the calls; every call made before the load has completed
\* awaits that promise and every caller receives the same handle; at most
\* one script element is injected: exactly one when window.pdfjsLib is not
\* yet defined at the first call, none when it is (the first call then
\* completes the load at once); calls after the load inject nothing.
C8_SharedLoad ==
  /\ NumScripts <= 1
  /\ Len(promises) <= 1
  /\ (\E p \in Calls : Called(p)) =>
       /\ Len(promises) = 1
       /\ loadingPromise = 1
       /\ NumScripts = (IF windowLib.kind = "preloaded" THEN 0 ELSE 1)
  /\ \A p \in Calls :
       /\ via[p] \in {"new", "inflight"} => waitOn[p] = 1
       /\ via[p] = "inflight" => promises[1].script # "none"
       /\ via[p] = "cached" => waitOn[p] = 0 /\ lib[p] # NoLib
       /\ lib[p] # NoLib => lib[p] = pdfjsLib /\ lib[p] = promises[1].value
  /\ \A p, q \in Calls : lib[p] # NoLib /\ lib[q] # NoLib => lib[p] = lib[q]

\* two invocations called loadPdfJs while the script was loading; one script
\* was injected and both hold the library it defined
C8_Witness ==
  /\ via[1] = "new"
  /\ via[2] = "inflight"
  /\ NumScripts = 1
  /\ lib[1] = [kind |-> "script", id |-> 1]
  /\ lib[2] = lib[1]
  /\ pc[1] = "awaitBuffer"
  /\ pc[2] = "awaitBuffer"

\* C9: interleaved invocations on different files are independent: each one's
\* accumulator holds its own pages in its own order, each one's callback
\* receives its own events only, and each one's blob is the one the
\* invocation produces when it runs alone.
C9_Independent ==
  \A p \in Calls :
    LET N == Len(file[p])
        alone == [n \in 1..N |-> ExtractPageText(file[p][n])]
    IN  /\ Len(allPageTexts[p]) <= N
        /\ \A n \in 1..Len(allPageTexts[p]) : allPageTexts[p][n] = alone[n]
        /\ pc[p] \in {"awaitPage", "awaitText", "awaitExtract"} =>
             Len(allPageTexts[p]) = i[p] - 1
        /\ \A k \in 1..Len(received[p]) :
             /\ received[p][k].totalPages = N
             /\ k <= N => received[p][k].stage = "extracting"
                          /\ received[p][k].currentPage = k
             /\ k > N => received[p][k].stage = "generating" /\ k = N + 1
        /\ pc[p] = "resolved" =>
             result[p] = [kind |-> "blob", blocks |-> Assemble(alone)]

\* two different files in flight at once: invocation 1 reads page 2 while
\* invocation 2 has page 1 extracted and not yet appended
C9_Witness ==
  /\ file[1] # file[2]
  /\ pc[1] = "awaitText" /\ i[1] = 2 /\ Len(allPageTexts[1]) = 1
  /\ pc[2] = "awaitExtract" /\ i[2] = 1 /\ allPageTexts[2] = <<>>

\* C10: line clustering is first-fit against a fixed representative.  The
\* runs clustered are the retained ones, in input order; each run joins the
\* earliest-created line whose Y is strictly less than 3 from its own, and
\* otherwise starts a new line at its own Y; a join leaves the Y of the line
\* and every other line as they were.
C10_FirstFit ==
  /\ [](/\ Len(cPos) = Cardinality({k \in 1..Len(cPage.items) :
                         \/ cPage.items[k].hasEOL
                         \/ \E j \in 1..Len(cPage.items[k].str) :
                              cPage.items[k].str[j] # " "})
        /\ cIdx <= Len(cPos))
  /\ [][cIdx' # cIdx =>
         LET r == cPos[cIdx + 1]
             near == {k \in 1..Len(cLines) :
                        cLines[k].y - r.y < 3 /\ r.y - cLines[k].y < 3}
             frag == r
         IN  /\ cIdx' = cIdx + 1
             /\ IF near # {}
                THEN LET first == CHOOSE k \in near : \A j \in near : k <= j
                     IN  /\ Len(cLines') = Len(cLines)
                         /\ cLines'[first].y = cLines[first].y
                         /\ cLines'[first].items = Append(cLines[first].items, frag)
                         /\ \A k \in 1..Len(cLines) : k # first => cLines'[k] = cLines[k]
                ELSE /\ Len(cLines') = Len(cLines) + 1
                     /\ cLines'[Len(cLines) + 1] = [y |-> r.y, items |-> <<frag>>]
                     /\ \A k \in 1..Len(cLines) : cLines'[k] = cLines[k]
     ]_vars

\* lines at Y 0 and 3 (a difference of exactly 3 started the second); the
\* run at Y 2 is near both and has joined the first
C10_Witness ==
  /\ cIdx = 3
  /\ Len(cLines) = 2
  /\ cLines[1].y = 0 /\ cLines[2].y = 3
  /\ cPos[3].y = 2
  /\ Len(cLines[1].items) = 2 /\ Len(cLines[2].items) = 1

\* ------------------------------------------------------------------------
\* Vocabulary of the extraction properties
\* ------------------------------------------------------------------------

Returned == xPhase = "returned"
\* the Y-sorted lines all have text
AllLinesHaveText == \A k \in 1..Len(xLines) : LineText(xLines[k]) # EmptyStr
\* the lines of xLines that start a paragraph when gaps above 10 split
SplitsAt == {k \in 2..Len(xLines) : xLines[k].y - xLines[k - 1].y > 10}
\* the paragraph (1-based) the k-th line belongs to
ParagraphOf(k) == 1 + Cardinality({b \in SplitsAt : b <= k})
LinesOf(j) == {k \in 1..Len(xLines) : ParagraphOf(k) = j}
FirstOf(j) == CHOOSE k \in LinesOf(j) : \A m \in LinesOf(j) : k <= m

\* C11: on a page whose lines all have text, the returned paragraphs are the
\* maximal groups of Y-adjacent lines whose gaps are at most 10, each the
\* texts of its lines joined by one space; a gap above 10 starts a new one.
C11_ParagraphThreshold ==
  (Returned /\ xLines # <<>> /\ AllLinesHaveText) =>
    /\ Len(xResult) = Cardinality(SplitsAt) + 1
    /\ \A j \in 1..Len(xResult) :
         xResult[j] = JoinSp([m \in 1..Cardinality(LinesOf(j)) |->
                                LineText(xLines[FirstOf(j) + m - 1])])
C11_Witness ==
  /\ Returned
  /\ cPage = GapPage
  /\ xResult = << <<"a", SP, "b">>, <<"c">> >>

\* the elements of a set of numbers in ascending order
Ascending(S) ==
  [r \in 1..Cardinality(S) |->
     CHOOSE k \in S : Cardinality({m \in S : m < k}) = r - 1]
\* the Y-sorted lines that have text
TextLines == {k \in 1..Len(xLines) : LineText(xLines[k]) # EmptyStr}
FirstTextLine == CHOOSE k \in TextLines : \A m \in TextLines : k <= m
\* the lines with text that lie more than 10 below the line directly before
\* them in the Y-sorted list
OwnGapSplits ==
  {k \in TextLines \ {FirstTextLine} : xLines[k].y - xLines[k - 1].y > 10}
OwnGapParagraphOf(k) == 1 + Cardinality({b \in OwnGapSplits : b <= k})
OwnGapLinesOf(j) == Ascending({k \in TextLines : OwnGapParagraphOf(k) = j})

\* C12: on any page, lines without text are skipped, and each line with text
\* after the first is joined to or split from the current paragraph by the
\* gap between that very line and the line directly before it in the
\* Y-sorted list.
C12_OwnGap ==
  (Returned /\ TextLines # {}) =>
    /\ Len(xResult) = Cardinality(OwnGapSplits) + 1
    /\ \A j \in 1..Len(xResult) :
         xResult[j] = JoinSp([m \in 1..Len(OwnGapLinesOf(j)) |->
                                LineText(xLines[OwnGapLinesOf(j)[m]])])

\* the lines have been sorted (line 300 is behind)
Sorted == xPhase \in {"paragraphs", "returned"} /\ xLines # <<>>
\* two fragment lists hold the same fragments, each as often
SameFragments(s, t) ==
  /\ Len(s) = Len(t)
  /\ \A a \in 1..Len(s) :
       Cardinality({b \in 1..Len(s) : s[b] = s[a]})
         = Cardinality({b \in 1..Len(t) : t[b] = s[a]})
FragmentTexts(line) == [k \in 1..Len(line.items) |-> line.items[k].text]

OccursAt(text, j, o) ==
  /\ o + Len(text) <= Len(xResult[j])
  /\ SubSeq(xResult[j], o + 1, o + Len(text)) = text
\* the text a occurs in the returned paragraphs before the text b
OccursBefore(a, b) ==
  \E j1, j2 \in 1..Len(xResult) :
    \E o1 \in 0..Len(xResult[j1]), o2 \in 0..Len(xResult[j2]) :
      /\ OccursAt(a, j1, o1)
      /\ OccursAt(b, j2, o2)
      /\ \/ j1 < j2
         \/ j1 = j2 /\ o1 + Len(a) <= o2

\* C14: after the sort of line 295 the lines ascend in Y, and of any two
\* lines with text the one higher on the page (smaller Y) has its text
\* earlier in the returned paragraphs, in the same paragraph or an earlier
\* one, whatever the arrival order of the runs.
C14_TopToBottom ==
  /\ Sorted =>
       \A k, m \in 1..Len(xLines) : k < m => xLines[k].y < xLines[m].y
  /\ Returned =>
       \A k, m \in TextLines :
         xLines[k].y < xLines[m].y
           => OccursBefore(LineText(xLines[k]), LineText(xLines[m]))
C14_Witness ==
  /\ Returned
  /\ Len(cLines) = 2
  /\ cLines[1].y = 23
  /\ cLines[2].y = 0
  /\ xResult = << <<"b">>, <<"a">> >>

\* C15: whatever the runs of the page (blank runs and runs that only carry
\* the end-of-line hint included), no returned paragraph is the empty string.
C15_NonEmptyParagraphs ==
  Returned => \A j \in 1..Len(xResult) : Len(xResult[j]) > 0
C15_Witness ==
  /\ Returned
  /\ \E k \in 1..Len(cPage.items) :
       cPage.items[k].hasEOL /\ cPage.items[k].str = <<>>
  /\ \E k \in 1..Len(cPage.items) :
       ~cPage.items[k].hasEOL /\ cPage.items[k].str = <<" ">>
  /\ Len(xLines) = 2
  /\ Len(xResult) = 1

\* a page without text: no runs, only discarded runs, or only runs whose
\* line texts are empty
NoTextPage(page) ==
  \A k \in 1..Len(page.items) :
    \A c \in 1..Len(page.items[k].str) : page.items[k].str[c] = " "

\* stepped over any page without text, extractPageText returns the empty list
NoTextPageReturnsEmpty == (Returned /\ NoTextPage(cPage)) => xResult = <<>>

\* C16: a page without text makes extractPageText return the empty list;
\* no failure is attributed to the page once its extraction has returned,
\* the empty list is recorded at the page's own position, and the
\* conversion goes straight on to the next page (or to the generating
\* stage) and processes every remaining page.
C16_NoTextPageContinues ==
  \A p \in Calls : \A n \in 1..Len(file[p]) :
    (NoTextPage(file[p][n]) /\ CountEv(p, "extracted", n) > 0) =>
      /\ (pc[p] = "awaitExtract" /\ i[p] = n) => paragraphs[p] = <<>>
      /\ n <= Len(allPageTexts[p]) => allPageTexts[p][n] = <<>>
      /\ failure[p].page # n
      /\ \A k \in 1..Len(log[p]) :
           log[p][k] = [ev |-> "push", page |-> n] =>
             /\ k < Len(log[p])
             /\ log[p][k + 1] = IF n < Len(file[p])
                                THEN [ev |-> "progress", page |-> n + 1]
                                ELSE [ev |-> "generating", page |-> Len(file[p])]
      /\ pc[p] = "resolved" =>
           /\ Len(allPageTexts[p]) = Len(file[p])
           /\ \A m \in (n + 1)..Len(file[p]) :
                allPageTexts[p][m] = ExtractPageText(file[p][m])
C16_Witness ==
  /\ pc[1] = "resolved"
  /\ file[1] = <<EolPage, TwoParaPage>>
  /\ allPageTexts[1] = << <<>>, << <<"a", SP, "b">>, <<"c">> >> >>
  /\ Len(result[1].blocks) = 4
  /\ result[1].blocks[1].italics
  /\ result[1].blocks[3].text = <<"a", SP, "b">>

\* C17: the document of a first page reading "Hello world" on one line and
\* a second page without runs resolves to exactly three blocks: the text
\* block "Hello world", a page break, and the italic note of page 2.
C17_HelloWorldThenEmpty ==
  \A p \in Calls :
    (/\ pc[p] = "resolved"
     /\ Len(file[p]) = 2
     /\ file[p][1] = HelloPage
     /\ file[p][2].items = <<>>) =>
      result[p].blocks =
        << [kind |-> "paragraph", text |-> <<"Hello", SP, "world">>, italics |-> FALSE],
           [kind |-> "pagebreak", text |-> <<>>, italics |-> FALSE],
           [kind |-> "paragraph", text |-> <<"[Strona ", "2", " - brak tekstu]">>,
            italics |-> TRUE] >>
C17_Witness ==
  /\ pc[1] = "resolved"
  /\ file[1] = <<HelloPage, EmptyPage>>
  /\ allPageTexts[1] = << << <<"Hello", SP, "world">> >>, <<>> >>
  /\ Len(result[1].blocks) = 3
  /\ result[1].blocks[2].kind = "pagebreak"

\* the number of text paragraphs in a block sequence
ParagraphCount(blocks) ==
  Cardinality({k \in 1..Len(blocks) : blocks[k].kind = "paragraph" /\ ~blocks[k].italics})

\* C18: two conversions of the same document that both resolve, one after
\* the other, resolve with the same blocks and the same number of
\* paragraphs, and have extracted the same paragraphs and reported the same
\* progress events, whether the first of them loaded the library, found it
\* on the window, or found it cached.
C18_Deterministic ==
  \A p, q \in Calls :
    (pc[p] = "resolved" /\ pc[q] = "resolved" /\ file[p] = file[q]) =>
      /\ result[p].blocks = result[q].blocks
      /\ ParagraphCount(result[p].blocks) = ParagraphCount(result[q].blocks)
      /\ allPageTexts[p] = allPageTexts[q]
      /\ received[p] = received[q]
C18_Witness ==
  /\ wRun = 2
  /\ pc[1] = "resolved"
  /\ pc[2] = "resolved"
  /\ file[1] = <<HelloPage, EmptyPage>>
  /\ file[2] = <<HelloPage, EmptyPage>>
  /\ via[1] = "new"
  /\ promises[1].script = "loaded"
  /\ via[2] = "cached"
  /\ Len(result[2].blocks) = 3
  /\ ParagraphCount(result[2].blocks) = 1

\* the rule a File has to pass: a MIME type containing "pdf" or a name
\* ending, in any case, with ".pdf"; and at most 50 MB
LooksLikePdf(f) ==
  \/ Includes(f.type, <<"p", "d", "f">>)
  \/ EndsWith(ToLowerCase(f.name), <<".", "p", "d", "f">>)
PassesRule(f) == LooksLikePdf(f) /\ f.size <= 52428800

\* C19: every conversion is one the widget started, with a File that passes
\* the rule; the selected file passes the rule; a picked File that passes
\* the rule (one of exactly 50 MB included) becomes the selected file, and
\* one that does not sets an error and leaves the selected file and the
\* result as they were.
C19_OnlyValidFiles ==
  /\ \A p \in Calls :
       /\ pc[p] # "off" <=> p <= wRun
       /\ pc[p] # "off" =>
            /\ wGiven[p] # Null
            /\ PassesRule(wGiven[p])
            /\ file[p] = wGiven[p].doc
  /\ wFile # Null => PassesRule(wFile)
  /\ wOp = "select" =>
       IF PassesRule(wPick)
       THEN /\ wFile = wPick
            /\ error = "null"
            /\ resultBlob = NoBlob
       ELSE /\ error # "null"
            /\ error = IF LooksLikePdf(wPick)
                       THEN "Plik jest za duzy (max 50 MB)"
                       ELSE "Plik musi byc w formacie PDF"
            /\ wFile = wPrev.file
            /\ resultBlob = wPrev.resultBlob
\* a File of exactly 50 MB was converted, then one a byte larger is refused
C19_Witness ==
  /\ wRun = 1
  /\ wGiven[1].size = 52428800
  /\ pc[1] = "resolved"
  /\ wOp = "select"
  /\ wPick.size = 52428801
  /\ error = "Plik jest za duzy (max 50 MB)"
  /\ wFile = Null

\* the convert button is rendered (line 197)
ConvertAvailable == wFile # Null /\ ~isConverting /\ resultBlob = NoBlob

\* C20: when handleConvert has finished, the widget is not converting and
\* shows no progress; after a failed conversion there is no result, the
\* error is the generic message, the selected file is the one that was
\* converted and the convert button is rendered again; after a successful
\* one the result is the blob the conversion resolved with and there is no
\* error.  Progress is only ever shown while converting.
C20_StateAfterConversion ==
  /\ wOp = "settle" =>
       /\ ~isConverting
       /\ progress = Null
       /\ wFile = wGiven[wRun]
       /\ pc[wRun] \in {"resolved", "rejected"}
       /\ pc[wRun] = "rejected" =>
            /\ resultBlob = NoBlob
            /\ error = "Wystapil blad podczas konwersji. Sprobuj ponownie."
            /\ ConvertAvailable
       /\ pc[wRun] = "resolved" =>
            /\ resultBlob = [kind |-> "blob", blocks |-> children[wRun]]
            /\ error = "null"
  /\ progress # Null => isConverting
\* a conversion failed after the first page was reported, the same file was
\* converted again, and that conversion succeeded
C20_Witness ==
  /\ wOp = "settle"
  /\ wRun = 2
  /\ pc[1] = "rejected"
  /\ failure[1].why = "getTextContent"
  /\ wGiven[2] = wGiven[1]
  /\ pc[2] = "resolved"
  /\ resultBlob = result[2]
  /\ error = "null"
  /\ ~isConverting
  /\ progress = Null

\* C25: a conversion the widget starts after one that failed on the library
\* load starts a load of its own: it does not wait on the promise that has
\* already rejected, and it does not fail on the load without any script
\* having been injected for it.
C25_RetryReloads ==
  \A p \in Calls :
    (p > 1 /\ pc[p] # "off" /\ failure[p - 1].why = "load") =>
      /\ via[p] = "new"
      /\ waitOn[p] # waitOn[p - 1]

\* the places <<line, position>> the clustered runs stand at
Places == {<<k, j>> \in (1..Len(cLines)) \X (1..MaxRuns) : j <= Len(cLines[k].items)}
Distance(a, b) == IF a < b THEN b - a ELSE a - b

\* C26: at every moment of the clustering, in any arrival order: two
\* distinct lines are at least 3 apart in Y; every run is strictly less
\* than 3 from the Y of its line, so two runs of a line are less than 6
\* apart; and every run clustered so far stands in exactly one place.
C26_LinesApart ==
  /\ \A k, m \in 1..Len(cLines) :
       k # m => Distance(cLines[k].y, cLines[m].y) >= 3
  /\ \A k \in 1..Len(cLines) :
       /\ cLines[k].items # <<>>
       /\ \A j \in 1..Len(cLines[k].items) :
            Distance(cLines[k].items[j].y, cLines[k].y) < 3
       /\ \A j, h \in 1..Len(cLines[k].items) :
            Distance(cLines[k].items[j].y, cLines[k].items[h].y) < 6
  /\ Cardinality(Places) = cIdx
  /\ \A r \in 1..cIdx :
       Cardinality({pl \in Places : cLines[pl[1]].items[pl[2]] = cPos[r]})
         = Cardinality({q \in 1..cIdx : cPos[q] = cPos[r]})
\* runs at Y 2, 0 and 4: the runs at 0 and 4 are a line apart from each
\* other and yet both in the line that the run at 2 started
C26_Witness ==
  /\ cIdx = 3
  /\ Len(cLines) = 1
  /\ cLines[1].y = 2
  /\ [k \in 1..3 |-> cLines[1].items[k].y] = <<2, 0, 4>>

\* the texts of the Y-sorted lines that have one, top to bottom
TextsInOrder ==
  [r \in 1..Cardinality(TextLines) |-> LineText(xLines[Ascending(TextLines)[r]])]
\* how often the text t stands as a whole line text in the j-th paragraph
TimesIn(t, j) ==
  Cardinality({o \in 0..Len(xResult[j]) :
                 /\ OccursAt(t, j, o)
                 /\ o = 0 \/ xResult[j][o] = " "
                 /\ o + Len(t) = Len(xResult[j]) \/ xResult[j][o + Len(t) + 1] = " "})

\* C27: for every page, with or without lines that have no text, the
\* returned paragraphs joined by single spaces are the texts of the lines
\* that have one, joined by single spaces in ascending Y; and where those
\* texts are pairwise different, each stands in exactly one paragraph,
\* exactly once.
C27_TextConserved ==
  Returned =>
    /\ JoinSp(xResult) = JoinSp(TextsInOrder)
    /\ (\A a, b \in TextLines :
          a # b => LineText(xLines[a]) # LineText(xLines[b]))
         => \A a \in TextLines :
              /\ Cardinality({j \in 1..Len(xResult) :
                                TimesIn(LineText(xLines[a]), j) > 0}) = 1
              /\ \A j \in 1..Len(xResult) : TimesIn(LineText(xLines[a]), j) <= 1
\* the page with a line without text between two lines with text
C27_Witness ==
  /\ Returned
  /\ cPage = SkippedLinePage
  /\ Len(xLines) = 3
  /\ Cardinality(TextLines) = 2
  /\ xResult = << <<"a", SP, "b">> >>

\* the conversions that have been started and have not settled
InFlight == {p \in Calls : pc[p] \notin {"off", "idle", "resolved", "rejected"}}

\* C28: in every state the widget reaches through the controls it renders,
\* a result and an error are never there together, a result is only there
\* with a selected file, and at most one conversion is in flight, which the
\* widget is showing as converting.
C28_WidgetInvariant ==
  /\ ~(resultBlob # NoBlob /\ error # "null")
  /\ resultBlob # NoBlob => wFile # Null
  /\ Cardinality(InFlight) <= 1
  /\ InFlight # {} => isConverting /\ InFlight = {wRun}
  /\ isConverting => wFile # Null /\ resultBlob = NoBlob /\ error = "null"
\* a second conversion is in flight after the first one failed and its error
\* was cleared
C28_Witness ==
  /\ wRun = 2
  /\ pc[1] = "rejected"
  /\ InFlight = {2}
  /\ pc[2] = "awaitText"
  /\ isConverting
  /\ error = "null"
  /\ progress # Null

\* C21: with excludeSimilar, for every combination of the class flags (none
\* selected included), the characters drawn from hold none of 0, O, 1, l, I,
\* and neither does the password at any moment.
C21_NoSimilarChars ==
  (pwPc \in {"loop", "returned"} /\ pwOptions.excludeSimilar) =>
    /\ \A k \in 1..Len(pwChars) : pwChars[k] \notin {"0", "O", "1", "l", "I"}
    /\ \A k \in 1..Len(password) : password[k] \notin {"0", "O", "1", "l", "I"}
\* C22: generateMultipleNumbers with unique = true and min <= max returns
\* pairwise distinct numbers of [min, max], min(count, max - min + 1) of
\* them; with sorted = true the result is ascending; and when the random
\* source keeps producing every value the call returns.
Distinct(ns) == \A a, b \in 1..Len(ns) : a # b => ns[a] # ns[b]
AscendingNumbers(ns) == \A a, b \in 1..Len(ns) : a < b => ns[a] <= ns[b]
UniqueResult ==
  (numPc = "returned" /\ numUnique /\ numMin <= numMax) =>
    /\ Distinct(numbers)
    /\ \A k \in 1..Len(numbers) : numMin <= numbers[k] /\ numbers[k] <= numMax
    /\ Len(numbers) = MathMin(numCount, numMax - numMin + 1)
    /\ numSorted => AscendingNumbers(numbers)
C22_UniqueNumbers ==
  /\ []UniqueResult
  /\ (numPc = "called" /\ numUnique /\ numMin <= numMax) ~> (numPc = "returned")
C22_Witness ==
  /\ numPc = "returned" /\ numUnique /\ numSorted
  /\ numMin < numMax
  /\ numCount > numMax - numMin + 1
  /\ Len(numbers) = numMax - numMin + 1
  /\ num # numbers[Len(numbers)]
\* C23: for every n of 1..3999 toRoman(n) is accepted by isValidRoman and
\* fromRoman(toRoman(n)) = n; toRoman returns the empty string for every
\* integer outside 1..3999; fromRoman returns 0 for every string that
\* isValidRoman rejects.
C23_RomanRoundTrip ==
  /\ (rmPc \in {"converted", "back"} /\ rmNum >= 1 /\ rmNum <= MaxRoman) =>
       IsValidRoman(rmRoman)
  /\ (rmPc = "back" /\ rmNum >= 1 /\ rmNum <= MaxRoman) => rmValue = rmNum
  /\ (rmPc \in {"converted", "back"} /\ (rmNum < 1 \/ rmNum > MaxRoman)) =>
       rmRoman = <<>>
  /\ (rmPc = "parsed" /\ ~IsValidRoman(rmText)) => rmValue = 0
C23_Witness ==
  /\ rmPc = "back"
  /\ rmNum = 1994
  /\ rmRoman = <<"M", "C", "M", "X", "C", "I", "V">>
  /\ rmValue = 1994
\* C24: caesarDecrypt(caesarEncrypt(text, s), s) = text for every text and
\* every integer shift s, zero, negative and beyond 25 included; every
\* character outside A-Z and a-z comes back unchanged at its position, and
\* letters keep their case.
IsUpperCode(code) == code >= UPPER_A /\ code < UPPER_A + ALPHA_SIZE
IsLowerCode(code) == code >= LOWER_A /\ code < LOWER_A + ALPHA_SIZE
C24_CaesarInverse ==
  /\ csPc = "decrypted" => csDecrypted = csText
  /\ csPc \in {"encrypted", "decrypted"} =>
       /\ Len(csEncrypted) = Len(csText)
       /\ \A k \in 1..Len(csText) :
            /\ IsUpperCode(csText[k]) <=> IsUpperCode(csEncrypted[k])
            /\ IsLowerCode(csText[k]) <=> IsLowerCode(csEncrypted[k])
            /\ (~IsUpperCode(csText[k]) /\ ~IsLowerCode(csText[k])) =>
                 csEncrypted[k] = csText[k]
C24_Witness ==
  /\ csPc = "decrypted"
  /\ csShift = 0 - 27
  /\ csText = <<65, 122>>
  /\ csEncrypted = <<90, 121>>
  /\ csDecrypted = <<65, 122>>
\* C29: once stopMetronome has run, currentBeat stays -1 (no beat indicator
\* is lit) until the next start, whatever the interleaving with the
\* scheduler interval and the display timers created before the stop.
C29_StoppedShowsNoBeat == ~isPlayingRef => currentBeat = 0 - 1
====
